---- MODULE Spec2Model ----
(***************************************************************************)
(* State-machine model of the request pipeline of grpc-example:            *)
(*   - the token authenticator (auth/jwt.go),                              *)
(*   - the interceptor chain logging -> metrics -> JWT auth -> handler     *)
(*     (interceptors/*.go, wired in main.go),                              *)
(*   - the UserService handlers and the in-memory storage engine           *)
(*     (server/server.go, server/memory.go).                               *)
(* Three specifications share the variables:                               *)
(*   SpecChain  concurrent calls travelling through the interceptor chain, *)
(*   SpecStore  concurrent handler calls over the in-memory store,         *)
(*   SpecSeq    handler calls over the store, one call at a time.          *)
(***************************************************************************)
EXTENDS Integers, Sequences, FiniteSets, TLC

\* ------------------------------------------------------------------ bounds
\* Largest value of the wall clock (time.Now()), in token-lifetime units.
MaxClock == 1
\* Lifetime of a generated token (JWTManager.tokenDuration) in clock units.
TokenDuration == 1

\* Concurrent calls in flight through the interceptor chain.
Calls == {"c1", "c2"}

\* Go's nil (absent pointer / absent context value).
Nil == [nil |-> TRUE]

\* ------------------------------------------------- auth/jwt.go: the tokens
\* JWTManager{secretKey, tokenDuration, issuer}
Manager == [secretKey |-> "secret", tokenDuration |-> TokenDuration,
            issuer |-> "grpc-example"]
\* A manager holding another key (the tests' wrongManager).
WrongManager == [Manager EXCEPT !.secretKey = "wrong-secret"]

\* jwt.SigningMethodHMAC covers the three HMAC algorithms of the library.
HMACAlgs == {"HS256", "HS384", "HS512"}

\* HMAC signature of the signing input (header algorithm + payload) under a
\* key: an injective, unforgeable function of its three arguments.
Sign(key, alg, claims) == <<key, alg, claims>>

\* (variant of GenerateToken that leaves the roles out of the payload)
GenerateToken_NoRoles(m, userID, username, email, roles, now) ==
  LET claims == [userID |-> userID, username |-> username, email |-> email,
                 roles |-> <<>>,
                 exp |-> now + m.tokenDuration, iat |-> now, nbf |-> now,
                 iss |-> m.issuer, sub |-> userID]
  IN [raw |-> "jwt", alg |-> "HS256", claims |-> claims,
      sig |-> Sign(m.secretKey, "HS256", claims)]

\* GenerateToken: HS256 token over the identity and the registered claims.
GenerateToken(m, userID, username, email, roles, now) ==
  LET claims == [userID |-> userID, username |-> username, email |-> email,
                 roles |-> roles,
                 exp |-> now + m.tokenDuration, iat |-> now, nbf |-> now,
                 iss |-> m.issuer, sub |-> userID]
  IN [raw |-> "jwt", alg |-> "HS256", claims |-> claims,
      sig |-> Sign(m.secretKey, "HS256", claims)]

\* (variant of ValidateToken that does not verify the signature)
ValidateToken_NoSignature(m, tok, now) ==
  IF tok.raw # "jwt" THEN [claims |-> Nil, err |-> "ErrInvalidToken"]
  ELSE IF tok.alg \notin HMACAlgs THEN [claims |-> Nil, err |-> "ErrInvalidToken"]
  ELSE IF now >= tok.claims.exp THEN [claims |-> Nil, err |-> "ErrExpiredToken"]
  ELSE IF now < tok.claims.nbf THEN [claims |-> Nil, err |-> "ErrInvalidToken"]
  ELSE [claims |-> tok.claims, err |-> "nil"]

\* (variant of ValidateToken that forgets the expiry check)
ValidateToken_NoExpiry(m, tok, now) ==
  IF tok.raw # "jwt" THEN [claims |-> Nil, err |-> "ErrInvalidToken"]
  ELSE IF tok.alg \notin HMACAlgs THEN [claims |-> Nil, err |-> "ErrInvalidToken"]
  ELSE IF tok.sig # Sign(m.secretKey, tok.alg, tok.claims)
       THEN [claims |-> Nil, err |-> "ErrInvalidToken"]
  ELSE [claims |-> tok.claims, err |-> "nil"]

\* ValidateToken: jwt.ParseWithClaims (structure, key function restricted to
\* HMAC methods, signature, then exp / nbf) and the mapping of its errors.
ValidateToken(m, tok, now) ==
  IF tok.raw # "jwt" THEN [claims |-> Nil, err |-> "ErrInvalidToken"]
  ELSE IF tok.alg \notin HMACAlgs THEN [claims |-> Nil, err |-> "ErrInvalidToken"]
  ELSE IF tok.sig # Sign(m.secretKey, tok.alg, tok.claims)
       THEN [claims |-> Nil, err |-> "ErrInvalidToken"]
  ELSE IF now >= tok.claims.exp THEN [claims |-> Nil, err |-> "ErrExpiredToken"]
  ELSE IF now < tok.claims.nbf THEN [claims |-> Nil, err |-> "ErrInvalidToken"]
  ELSE [claims |-> tok.claims, err |-> "nil"]

\* (variant of RefreshToken that validates the claims as ValidateToken does)
RefreshToken_Validating(m, tok, now) ==
  LET r == ValidateToken(m, tok, now) IN
  IF r.err # "nil" THEN [token |-> Nil, err |-> "ErrInvalidToken"]
  ELSE [token |-> GenerateToken(m, r.claims.userID, r.claims.username,
                                r.claims.email, r.claims.roles, now),
        err |-> "nil"]

\* RefreshToken: the token parsed WithoutClaimsValidation (structure, key
\* function restricted to HMAC methods, signature), then GenerateToken with
\* the identity of its claims.
RefreshToken(m, tok, now) ==
  IF tok.raw # "jwt" THEN [token |-> Nil, err |-> "ErrInvalidToken"]
  ELSE IF tok.alg \notin HMACAlgs THEN [token |-> Nil, err |-> "ErrInvalidToken"]
  ELSE IF tok.sig # Sign(m.secretKey, tok.alg, tok.claims)
       THEN [token |-> Nil, err |-> "ErrInvalidToken"]
  ELSE [token |-> GenerateToken(m, tok.claims.userID, tok.claims.username,
                                tok.claims.email, tok.claims.roles, now),
        err |-> "nil"]

\* ------------------------------------------- the credentials calls present
TokJohn == GenerateToken(Manager, "user-123", "john", "john@example.com",
                         <<"user">>, 0)
TokMud == GenerateToken(Manager, "user-666", "mynameismud", "mud@example.com",
                        <<"user">>, 0)
TokHello == GenerateToken(Manager, "user-777", "hello", "hello@example.com",
                          <<"admin">>, 0)
\* Signed by a manager holding another key.
TokWrongKey == GenerateToken(WrongManager, "user-123", "john",
                             "john@example.com", <<"user">>, 0)
\* Payload altered after signing: the signature is the original one.
TokTampered == [TokJohn EXCEPT !.claims.roles = <<"admin">>]
\* Not a JWT at all ("invalid-token").
TokGarbage == [raw |-> "invalid-token", alg |-> "", claims |-> Nil, sig |-> <<>>]
\* The empty string.
TokEmpty == [raw |-> "", alg |-> "", claims |-> Nil, sig |-> <<>>]

\* John's claims signed under the manager's key with another algorithm
\* named in the header: HS384, RS256 (the key bytes used as its key), and
\* "none" with no signature.
SignedWith(alg) ==
  [raw |-> "jwt", alg |-> alg, claims |-> TokJohn.claims,
   sig |-> IF alg = "none" THEN <<>>
           ELSE Sign(Manager.secretKey, alg, TokJohn.claims)]

\* The tokens a caller presents that the manager did not issue.
ForeignTokens ==
  {TokWrongKey, TokTampered, TokGarbage, TokEmpty,
   SignedWith("HS384"), SignedWith("RS256"), SignedWith("none")}

\* The identities GenerateToken is called with.
Identities ==
  {[userID |-> "user-123", username |-> "john", email |-> "john@example.com",
    roles |-> <<"user">>],
   [userID |-> "admin-1", username |-> "admin", email |-> "admin@example.com",
    roles |-> <<"admin", "user">>],
   [userID |-> "", username |-> "", email |-> "", roles |-> <<>>]}

\* An authorization header value: scheme prefix followed by the token text.
Bearer(tok) == [scheme |-> "Bearer ", rest |-> tok]
\* The incoming context: metadata present or not, and the values stored
\* under the key "authorization".
Creds ==
  { [md |-> FALSE, auth |-> <<>>],
    [md |-> TRUE, auth |-> <<>>],
    [md |-> TRUE, auth |-> <<[scheme |-> "", rest |-> TokJohn]>>],
    [md |-> TRUE, auth |-> <<Bearer(TokEmpty)>>] }
  \cup { [md |-> TRUE, auth |-> <<Bearer(t)>>] :
           t \in {TokJohn, TokMud, TokHello, TokWrongKey, TokTampered, TokGarbage} }
\* The credentials of the calls sent through the chain: bearer tokens that
\* are valid, refused by the approver, signed with another key, tampered and
\* malformed (a valid one expires with time).
ChainCreds ==
  { [md |-> TRUE, auth |-> <<Bearer(t)>>] :
      t \in {TokJohn, TokMud, TokHello, TokWrongKey, TokTampered, TokGarbage} }

\* Full method names (info.FullMethod) and the two kinds of interceptor a call
\* goes through: grpc.UnaryServerInterceptor or grpc.StreamServerInterceptor.
Methods == {"/proto.UserService/GetUser", "/proto.UserService/ListUsers"}
Kinds == {"unary", "stream"}

\* What the wrapped handler itself may return.
HandlerOutcomes == {"OK", "NotFound", "Canceled"}

VARIABLES
  clock,        \* time.Now()
  enableAuth,   \* the -auth flag: is the JWT interceptor in the chain
  cpc,          \* per call: [at, ph], the stage of the chain the call is in
                \*   (0 outside, Len(Chain)+1 the handler) and its phase
  call,         \* per call: [method, kind, cred], the inbound RPC
  harg,         \* per call: the context (unary) or stream object (streaming)
                \*   the next stage is invoked with
  vres,         \* per call: what validateJWT returned (claims, status)
  vtime,        \* per call: the time at which validateJWT ran
  seen,         \* per call: what the handler read with GetClaimsFromContext
  cerr,         \* per call: status code travelling back up the chain
  trace,        \* per call: the stage events, in order
  metrics,      \* globalMetrics: totalRequests, totalErrors,
                \*   requestDurations, methodCounts
  users,        \* MemoryStorage.users: id -> stored user
  mu,           \* MemoryStorage.mu: [writer, readers] of the RWMutex
  h,            \* per worker: the handler call it runs
  updated,      \* an UpdateUser call has been made
  heap,         \* the timestamp objects callers hold pointers to
  tk,           \* a token: how it was made, what ValidateToken and
                \*   RefreshToken returned for it
  rq,           \* per call: a context, the roles RequireRole was built
                \*   with and what it returned
  rows,         \* PostgresStorage: the users table, id -> row
  last,         \* the last operation given to both storage backends, with
                \*   what each returned (or the last direct call of a
                \*   list of the store, of GetStats or of Reset)
  otel          \* OpenTelemetry: the -otel flag, the instruments of
                \*   globalOtelMetrics and, per call, the span and the
                \*   context the logging interceptor holds

chainVars == <<clock, enableAuth, cpc, call, harg, vres, vtime, seen, cerr, trace, metrics>>
storeVars == <<users, mu, h, updated, heap>>
authVars == <<tk, rq>>
pgVars == <<rows, last>>
otelVars == <<otel>>
vars == <<chainVars, storeVars, authVars, pgVars, otelVars>>

\* ------------------------------------------------ contexts and stream objects
\* context.Context: the incoming metadata plus the value under ClaimsContextKey.
Background(cred) == [cred |-> cred, claims |-> Nil]
\* context.WithValue(ctx, ClaimsContextKey, claims)
WithValue(ctx, claims) == [ctx EXCEPT !.claims = claims]
\* A grpc.ServerStream carrying its own context.
ServerStream(ctx) == [wrapped |-> FALSE, ctx |-> ctx, inner |-> Nil]
\* serverStreamWithContext{ServerStream: ss, ctx: ctx}
ServerStreamWithContext(ss, ctx) == [wrapped |-> TRUE, ctx |-> ctx, inner |-> ss]
\* (serverStreamWithContext).Context / (ServerStream).Context
StreamContext(ss) == ss.ctx
\* The value under ClaimsContextKey is an *auth.Claims.
IsClaims(v) == "roles" \in DOMAIN v

\* GetClaimsFromContext: the *auth.Claims under ClaimsContextKey, or nil when
\* there is no value or a value of another type.
GetClaimsFromContext(ctx) == IF IsClaims(ctx.claims) THEN ctx.claims ELSE Nil

\* Claims.HasRole
HasRole(c, role) == \E k \in DOMAIN c.roles : c.roles[k] = role

\* (variant of HasAnyRole that asks for every role)
HasAnyRole_All(c, roles) == \A k \in DOMAIN roles : HasRole(c, roles[k])

\* Claims.HasAnyRole
HasAnyRole(c, roles) == \E k \in DOMAIN roles : HasRole(c, roles[k])

\* RequireRole(roles...)(ctx): the status code of the error, OK for nil.
RequireRole(roles, ctx) ==
  LET claims == GetClaimsFromContext(ctx) IN
  IF claims = Nil THEN "Unauthenticated"
  ELSE IF ~HasAnyRole(claims, roles) THEN "PermissionDenied"
  ELSE "OK"

\* ----------------------------------------------- interceptors/jwt_auth.go
\* isPublicMethod: no method skips authentication.
isPublicMethod(method) == FALSE

\* (variant of ExtractToken that looks at the token before the prefix)
ExtractToken_TokenFirst(ctx) ==
  LET fail(msg) == [code |-> "Unauthenticated", msg |-> msg, token |-> Nil] IN
  IF ~ctx.cred.md THEN fail("missing metadata")
  ELSE IF Len(ctx.cred.auth) = 0 THEN fail("missing authorization header")
  ELSE LET authHeader == ctx.cred.auth[1] IN
    IF authHeader.rest.raw = "" THEN fail("empty token")
    ELSE IF authHeader.scheme # "Bearer "
    THEN fail("invalid authorization format, expected 'Bearer <token>'")
    ELSE [code |-> "OK", msg |-> "", token |-> authHeader.rest]

\* validateJWT up to its call of ValidateToken: metadata, header, "Bearer "
\* prefix, non-empty token.
ExtractToken(ctx) ==
  LET fail(msg) == [code |-> "Unauthenticated", msg |-> msg, token |-> Nil] IN
  IF ~ctx.cred.md THEN fail("missing metadata")
  ELSE IF Len(ctx.cred.auth) = 0 THEN fail("missing authorization header")
  ELSE LET authHeader == ctx.cred.auth[1] IN
    IF authHeader.scheme # "Bearer "
    THEN fail("invalid authorization format, expected 'Bearer <token>'")
    ELSE LET token == authHeader.rest IN
      IF token.raw = "" THEN fail("empty token")
      ELSE [code |-> "OK", msg |-> "", token |-> token]

\* validateJWT from its call of ValidateToken on: a failure is reported as
\* Unauthenticated with the error's text.
CheckToken(token, m, now) ==
  LET r == ValidateToken(m, token, now) IN
  IF r.err # "nil"
  THEN [claims |-> Nil, code |-> "Unauthenticated", msg |-> r.err]
  ELSE [claims |-> r.claims, code |-> "OK", msg |-> ""]

\* validateJWT: metadata, header, "Bearer " prefix, non-empty token, then
\* ValidateToken; every failure is reported as Unauthenticated.
validateJWT(ctx, m, now) ==
  LET e == ExtractToken(ctx) IN
  IF e.code # "OK" THEN [claims |-> Nil, code |-> e.code, msg |-> e.msg]
  ELSE CheckToken(e.token, m, now)

\* FakeClaimsApprover.ValidMethod
ValidMethod(fullMethod, claim) ==
  IF fullMethod = "/proto.UserService/ListUsers" /\ claim.email = "hello@example.com"
    THEN "ErrInvalidClaims"
  ELSE IF fullMethod = "/proto.UserService/ListUsers" /\ claim.username = "mynameismud"
    THEN "ErrNoPermission"
  ELSE "nil"

\* ------------------------------------------------ interceptors/metrics.go
NewMetricsCollector ==
  [totalRequests |-> 0, totalErrors |-> 0,
   requestDurations |-> [m \in Methods |-> <<>>],
   methodCounts |-> [m \in Methods |-> 0]]

\* (variant of recordRequest that counts no error)
recordRequest_NoErrors(m, method, duration, isError) ==
  [totalRequests |-> m.totalRequests + 1,
   totalErrors |-> m.totalErrors,
   requestDurations |-> [m.requestDurations EXCEPT ![method] = Append(@, duration)],
   methodCounts |-> [m.methodCounts EXCEPT ![method] = @ + 1]]

\* recordRequest, under m.mu.Lock()
recordRequest(m, method, duration, isError) ==
  [totalRequests |-> m.totalRequests + 1,
   totalErrors |-> IF isError THEN m.totalErrors + 1 ELSE m.totalErrors,
   requestDurations |-> [m.requestDurations EXCEPT ![method] = Append(@, duration)],
   methodCounts |-> [m.methodCounts EXCEPT ![method] = @ + 1]]

\* ------------------------------------------------- main.go: the chain built
\* (variant of Chain that appends the auth interceptor first)
Chain_AuthFirst ==
  IF enableAuth THEN <<"auth", "logging", "metrics">> ELSE <<"logging", "metrics">>

\* unaryInterceptors / streamInterceptors as main appends them: logging,
\* metrics, and the JWT interceptor when -auth is set.
\* grpc.Chain*Interceptor runs them in this order around the handler.
Chain ==
  IF enableAuth THEN <<"logging", "metrics", "auth">> ELSE <<"logging", "metrics">>

\* Position of the handler, below the last interceptor.
HandlerAt == Len(Chain) + 1
\* The interceptor a call is in, or "handler" / "none".
StageOf(c) ==
  IF cpc[c].at = 0 THEN "none"
  ELSE IF cpc[c].at = HandlerAt THEN "handler" ELSE Chain[cpc[c].at]
Idle == [at |-> 0, ph |-> "down"]
Done == [at |-> 0, ph |-> "up"]
\* An interceptor calls the next stage of the chain.
Down(c) == [at |-> cpc[c].at + 1, ph |-> "down"]
\* A stage returns: control resumes in the nearest stage above it that has
\* work left after its inner call (the JWT interceptor returns the inner
\* result as it is), or leaves the chain.
ResumeAt(i) ==
  LET above == {j \in 1..(i - 1) : Chain[j] \in {"logging", "metrics"}} IN
  IF above = {} THEN 0 ELSE CHOOSE j \in above : \A k \in above : k <= j
Up(c) == [at |-> ResumeAt(cpc[c].at), ph |-> "up"]

\* ------------------------------------------------- the store and its callers
\* Ids that requests name run over 0..MaxId; 0 is the unset id.
MaxId == 2
\* An update mask lists at most MaxMask paths.
MaxMask == 2
\* A client stream carries at most MaxItems users when calls run
\* concurrently, and at most MaxBatch items when they run one at a time.
MaxItems == 1

MaxBatch == 2

\* The goroutines running UserService handlers.
Workers == {"h1", "h2"}

\* timestamppb.New(t)
Timestamp(t) == [seconds |-> t]

\* A *timestamppb.Timestamp a caller keeps: a pointer to an object of the
\* heap.  A timestamp no caller changes is the value it holds.
Objects == {"t1", "t2"}

Ref(a) == [ref |-> a]

\* Two users that differ in every field a request can set: an administrator
\* sent without create date and status, and a member sent with both.
AdminUser(id) ==
  [id |-> id, role |-> "ADMIN", createDate |-> Nil, username |-> "admin",
   email |-> "admin@example.com", phone |-> "",
   profile |-> [displayName |-> "Administrator", bio |-> "", avatarUrl |-> "",
                dateOfBirth |-> Nil, preferences |-> {<<"theme", 1>>}],
   tags |-> <<"staff">>, metadata |-> {}, status |-> "INACTIVE",
   lastLogin |-> Nil, addresses |-> <<>>]

MemberUser(id) ==
  [id |-> id, role |-> "MEMBER", createDate |-> Timestamp(-1), username |-> "user1",
   email |-> "", phone |-> "+1234567890", profile |-> Nil,
   tags |-> <<>>, metadata |-> {<<"team", "blue">>}, status |-> "SUSPENDED",
   lastLogin |-> Timestamp(-1),
   addresses |-> <<[type |-> "HOME", street |-> "", city |-> "Paris", state |-> "",
                    postalCode |-> "", country |-> "FR", isPrimary |-> TRUE]>>]

\* The users requests carry: both shapes under every id, and one without
\* a username.
ReqUsers ==
  {AdminUser(i) : i \in 0..MaxId} \cup {MemberUser(i) : i \in 0..MaxId}
    \cup {[MemberUser(1) EXCEPT !.username = ""]}

\* The paths an update mask may name: the ten the handler knows, "id", and
\* one it does not know.
KnownPaths ==
  <<"role", "username", "email", "phone", "profile", "tags", "metadata",
    "status", "last_login", "addresses">>

MaskPaths == {KnownPaths[i] : i \in 1..Len(KnownPaths)} \cup {"id", "create_date"}

\* A handler call: where it is (pc), which handler (op), its request (user,
\* id, the mask paths read so far, req for a list request or the activity
\* last received), its locals (count, existing, the stream counters, the
\* users a list call enumerated, in val the response about to be sent),
\* the number of messages it has sent on its stream and, once returned, its
\* status code and value.
NoFrame ==
  [pc |-> "idle", op |-> "none", user |-> Nil, id |-> 0, mask |-> <<>>,
   count |-> 0, existing |-> Nil, received |-> 0, added |-> 0, failed |-> 0,
   errors |-> <<>>, req |-> Nil, result |-> <<>>, nsent |-> 0,
   code |-> "none", val |-> Nil]

NewMemoryStorage == [users |-> <<>>, mu |-> [writer |-> "none", readers |-> {}]]

\* No token made yet, no RequireRole check built yet.
NoToken == [token |-> Nil, identity |-> Nil, validated |-> Nil, refreshed |-> Nil]

NoCheck == [ctx |-> Nil, roles |-> <<>>, code |-> "none"]

\* OpenTelemetry off: globalOtelMetrics is not initialized, no span is made.
NoOtel ==
  [enabled |-> FALSE, active |-> 0, requests |-> 0, errors |-> 0,
   span |-> [c \in Calls |-> Nil], ctx |-> [c \in Calls |-> Nil]]

\* ------------------------------------------------------ the chain, per call
InitBase ==
  /\ clock = 0
  /\ enableAuth \in BOOLEAN
  /\ cpc = [c \in Calls |-> Idle]
  /\ call = [c \in Calls |-> Nil]
  /\ harg = [c \in Calls |-> Nil]
  /\ vres = [c \in Calls |-> Nil]
  /\ vtime = [c \in Calls |-> 0]
  /\ seen = [c \in Calls |-> Nil]
  /\ cerr = [c \in Calls |-> "none"]
  /\ trace = [c \in Calls |-> <<>>]
  /\ metrics = NewMetricsCollector
  /\ users = NewMemoryStorage.users
  /\ mu = NewMemoryStorage.mu
  /\ h = [w \in Workers |-> NoFrame]
  /\ updated = FALSE
  /\ heap = [a \in Objects |-> Timestamp(0)]
  /\ tk = NoToken
  /\ rq = [c \in Calls |-> NoCheck]
  /\ rows = <<>>
  /\ last = Nil

\* The server is started without -otel.
InitChain == InitBase /\ otel = NoOtel

\* The wall clock advances.
Tick ==
  /\ clock < MaxClock
  /\ clock' = clock + 1
  /\ UNCHANGED <<storeVars, authVars, otelVars, pgVars>>
  /\ UNCHANGED <<enableAuth, cpc, call, harg, vres, vtime, seen, cerr,
                 trace, metrics>>

\* The transport hands an inbound RPC to the first interceptor of the chain.
Receive(c) ==
  /\ cpc[c] = Idle
  /\ \E method \in Methods, kind \in Kinds, cred \in ChainCreds :
       /\ call' = [call EXCEPT ![c] =
                     [method |-> method, kind |-> kind, cred |-> cred]]
       /\ harg' = [harg EXCEPT ![c] =
                     IF kind = "stream" THEN ServerStream(Background(cred))
                     ELSE Background(cred)]
  /\ cpc' = [cpc EXCEPT ![c] = Down(c)]
  /\ UNCHANGED <<storeVars, authVars, otelVars, pgVars>>
  /\ UNCHANGED <<clock, enableAuth, vres, vtime, seen, cerr, trace, metrics>>

\* LoggingUnaryInterceptor / LoggingStreamInterceptor, up to the call of the
\* next stage: "Started" is logged.
LoggingStart(c) ==
  /\ ~otel.enabled
  /\ StageOf(c) = "logging" /\ cpc[c].ph = "down"
  /\ cpc' = [cpc EXCEPT ![c] = Down(c)]
  /\ trace' = [trace EXCEPT ![c] = Append(@, "log_start")]
  /\ UNCHANGED <<storeVars, authVars, otelVars, pgVars>>
  /\ UNCHANGED <<clock, enableAuth, call, harg, vres, vtime, seen, cerr,
                 metrics>>

\* MetricsUnaryInterceptor / MetricsStreamInterceptor, up to the call of the
\* next stage: start := time.Now().
MetricsStart(c) ==
  /\ ~otel.enabled
  /\ StageOf(c) = "metrics" /\ cpc[c].ph = "down"
  /\ cpc' = [cpc EXCEPT ![c] = Down(c)]
  /\ trace' = [trace EXCEPT ![c] = Append(@, "metrics_start")]
  /\ UNCHANGED <<storeVars, authVars, otelVars, pgVars>>
  /\ UNCHANGED <<clock, enableAuth, call, harg, vres, vtime, seen, cerr, metrics>>

\* (variant of IncomingContext that reads the context of whichever call
\*  entered the chain first, as a context captured outside the closure would)
IncomingContext_Captured(c) ==
  LET d == CHOOSE x \in Calls : harg[x] # Nil IN
  IF call[d].kind = "stream" THEN StreamContext(harg[d]) ELSE harg[d]

\* The context validateJWT is given: ctx (unary) or ss.Context() (stream).
IncomingContext(c) ==
  IF call[c].kind = "stream" THEN StreamContext(harg[c]) ELSE harg[c]

\* JWTAuth*Interceptor, first half: the public-method skip and validateJWT.
JWTAuthValidate(c) ==
  /\ StageOf(c) = "auth" /\ cpc[c].ph = "down"
  /\ IF isPublicMethod(call[c].method)
     THEN /\ cpc' = [cpc EXCEPT ![c] = Down(c)]
          /\ UNCHANGED <<vres, vtime, cerr, trace>>
     ELSE LET r == validateJWT(IncomingContext(c), Manager, clock) IN
          /\ vres' = [vres EXCEPT ![c] = r]
          /\ vtime' = [vtime EXCEPT ![c] = clock]
          /\ IF r.code # "OK"
             THEN /\ cerr' = [cerr EXCEPT ![c] = r.code]
                  /\ cpc' = [cpc EXCEPT ![c] = Up(c)]
                  /\ trace' = [trace EXCEPT ![c] = Append(@, "authn_fail")]
             ELSE /\ cpc' = [cpc EXCEPT ![c] = [cpc[c] EXCEPT !.ph = "approve"]]
                  /\ trace' = [trace EXCEPT ![c] = Append(@, "authn_ok")]
                  /\ UNCHANGED cerr
  /\ UNCHANGED <<storeVars, authVars, otelVars, pgVars>>
  /\ UNCHANGED <<clock, enableAuth, call, harg, seen, metrics>>

\* (variant of AttachClaims that hands the unwrapped stream to the handler)
AttachClaims_Unwrapped(c, claims) ==
  IF call[c].kind = "stream" THEN harg[c] ELSE WithValue(harg[c], claims)

\* The argument handed to the handler once the method is approved:
\* ctx = context.WithValue(ctx, ClaimsContextKey, claims) for a unary call,
\* the wrapped stream for a streaming call.
AttachClaims(c, claims) ==
  IF call[c].kind = "stream"
  THEN ServerStreamWithContext(harg[c], WithValue(StreamContext(harg[c]), claims))
  ELSE WithValue(harg[c], claims)

\* (variant of ApproveStatus that lets a refused method through)
ApproveStatus_Allow(err) == "OK"

\* What the interceptor returns for ValidMethod's verdict.
ApproveStatus(err) == IF err # "nil" THEN "PermissionDenied" ELSE "OK"

\* JWTAuth*Interceptor, second half: ValidMethod, then the claims are put
\* into the context and the next stage is called.
JWTAuthApprove(c) ==
  /\ StageOf(c) = "auth" /\ cpc[c].ph = "approve"
  /\ LET st == ApproveStatus(ValidMethod(call[c].method, vres[c].claims)) IN
     IF st # "OK"
     THEN /\ cerr' = [cerr EXCEPT ![c] = st]
          /\ cpc' = [cpc EXCEPT ![c] = Up(c)]
          /\ trace' = [trace EXCEPT ![c] = Append(@, "authz_fail")]
          /\ UNCHANGED harg
     ELSE /\ harg' = [harg EXCEPT ![c] = AttachClaims(c, vres[c].claims)]
          /\ cpc' = [cpc EXCEPT ![c] = Down(c)]
          /\ trace' = [trace EXCEPT ![c] = Append(Append(@, "authz_ok"), "attach")]
          /\ UNCHANGED cerr
  /\ UNCHANGED <<storeVars, authVars, otelVars, pgVars>>
  /\ UNCHANGED <<clock, enableAuth, call, vres, vtime, seen, metrics>>

\* The context the handler reads: its ctx argument, or stream.Context().
HandlerContext(c) ==
  IF call[c].kind = "stream" THEN StreamContext(harg[c]) ELSE harg[c]

\* The wrapped handler runs: it reads the claims of its context and returns.
Handler(c) ==
  /\ StageOf(c) = "handler"
  /\ seen' = [seen EXCEPT ![c] = GetClaimsFromContext(HandlerContext(c))]
  /\ \E outcome \in HandlerOutcomes : cerr' = [cerr EXCEPT ![c] = outcome]
  /\ cpc' = [cpc EXCEPT ![c] = Up(c)]
  /\ trace' = [trace EXCEPT ![c] = Append(@, "handler")]
  /\ UNCHANGED <<storeVars, authVars, otelVars, pgVars>>
  /\ UNCHANGED <<clock, enableAuth, call, harg, vres, vtime, metrics>>

\* time.Since(start) of the metrics interceptor: an opaque time.Duration (no
\* code of the pipeline branches on a duration).
Since(c) == "elapsed"

\* Metrics*Interceptor after the inner stages returned:
\* globalMetrics.recordRequest(info.FullMethod, time.Since(start), err != nil)
MetricsRecord(c) ==
  /\ ~otel.enabled
  /\ StageOf(c) = "metrics" /\ cpc[c].ph = "up"
  /\ metrics' = recordRequest(metrics, call[c].method, Since(c),
                              cerr[c] # "OK")
  /\ cpc' = [cpc EXCEPT ![c] = Up(c)]
  /\ trace' = [trace EXCEPT ![c] = Append(@, "metrics_rec")]
  /\ UNCHANGED <<storeVars, authVars, otelVars, pgVars>>
  /\ UNCHANGED <<clock, enableAuth, call, harg, vres, vtime, seen, cerr>>

\* Logging*Interceptor after the inner stages returned: "Completed" is logged
\* and the outcome goes to the stage above.
LoggingEnd(c) ==
  /\ ~otel.enabled
  /\ StageOf(c) = "logging" /\ cpc[c].ph = "up"
  /\ cpc' = [cpc EXCEPT ![c] = Up(c)]
  /\ trace' = [trace EXCEPT ![c] = Append(@, "log_end")]
  /\ UNCHANGED <<storeVars, authVars, otelVars, pgVars>>
  /\ UNCHANGED <<clock, enableAuth, call, harg, vres, vtime, seen, cerr,
                 metrics>>

\* --------------------------------------- interceptors/otel_interceptors.go
\* With -otel main appends the OTel logging and metrics interceptors in the
\* place of the plain ones, after InitializeOtelMetrics.
\* (variant of ContextWithSpan that starts the span from a fresh context)
ContextWithSpan_Background(ctx, c) ==
  [cred |-> [md |-> FALSE, auth |-> <<>>], claims |-> Nil, span |-> c]

\* tracer.Start(ctx, info.FullMethod, ...): the context carrying the span.
ContextWithSpan(ctx, c) == [cred |-> ctx.cred, claims |-> ctx.claims, span |-> c]

\* tracedServerStream{ServerStream: ss, ctx: ctx}
tracedServerStream(ss, ctx) == [wrapped |-> TRUE, ctx |-> ctx, inner |-> ss]

\* The span tracer.Start makes.
StartSpan(kind) ==
  [attrs |-> {"rpc.system", "rpc.service", "rpc.method", "rpc.grpc.kind"},
   kind |-> kind, status |-> "Unset", ended |-> FALSE]

\* The attributes the logging interceptor sets after the inner call: status
\* code (and message of an error), duration, and user.id, user.email and
\* user.roles when GetClaimsFromContext(ctx) finds claims.
EndSpan(span, ctx, err) ==
  [span EXCEPT
     !.status = IF err # "OK" THEN "Error" ELSE "Ok",
     !.attrs = @ \cup {"rpc.grpc.status_code", "rpc.duration_ms"}
                 \cup (IF err # "OK" THEN {"error.message"} ELSE {})
                 \cup (IF GetClaimsFromContext(ctx) # Nil
                       THEN {"user.id", "user.email", "user.roles"} ELSE {}),
     !.ended = TRUE]

\* OtelLogging*Interceptor up to the call of the next stage: the span is
\* started and the next stage gets the context of the span (unary) or the
\* stream wrapped with it.
OtelLoggingStart(c) ==
  /\ otel.enabled
  /\ StageOf(c) = "logging" /\ cpc[c].ph = "down"
  /\ LET ctx == ContextWithSpan(IncomingContext(c), c) IN
       /\ otel' = [otel EXCEPT !.span[c] = StartSpan(call[c].kind),
                               !.ctx[c] = ctx]
       /\ harg' = [harg EXCEPT ![c] = IF call[c].kind = "stream"
                                      THEN tracedServerStream(harg[c], ctx)
                                      ELSE ctx]
  /\ cpc' = [cpc EXCEPT ![c] = Down(c)]
  /\ trace' = [trace EXCEPT ![c] = Append(@, "log_start")]
  /\ UNCHANGED <<storeVars, authVars, pgVars>>
  /\ UNCHANGED <<clock, enableAuth, call, vres, vtime, seen, cerr, metrics>>

\* OtelMetrics*Interceptor up to the call of the next stage:
\* activeRequests.Add(ctx, 1, ...).
OtelMetricsStart(c) ==
  /\ otel.enabled
  /\ StageOf(c) = "metrics" /\ cpc[c].ph = "down"
  /\ otel' = [otel EXCEPT !.active = @ + 1]
  /\ cpc' = [cpc EXCEPT ![c] = Down(c)]
  /\ trace' = [trace EXCEPT ![c] = Append(@, "metrics_start")]
  /\ UNCHANGED <<storeVars, authVars, pgVars>>
  /\ UNCHANGED <<clock, enableAuth, call, harg, vres, vtime, seen, cerr, metrics>>

\* (variant of OtelMetricsExit whose decrement is skipped for a failed call)
OtelMetricsExit_LeakOnError(o, err) ==
  [o EXCEPT !.requests = @ + 1,
            !.errors = IF err # "OK" THEN @ + 1 ELSE @,
            !.active = IF err # "OK" THEN @ ELSE @ - 1]

\* The instruments after the inner call returned: requestCounter.Add(1),
\* errorCounter.Add(1) for an error, and the deferred activeRequests.Add(-1).
OtelMetricsExit(o, err) ==
  [o EXCEPT !.requests = @ + 1,
            !.errors = IF err # "OK" THEN @ + 1 ELSE @,
            !.active = @ - 1]

\* OtelMetrics*Interceptor after the inner stages returned.
OtelMetricsRecord(c) ==
  /\ otel.enabled
  /\ StageOf(c) = "metrics" /\ cpc[c].ph = "up"
  /\ otel' = OtelMetricsExit(otel, cerr[c])
  /\ cpc' = [cpc EXCEPT ![c] = Up(c)]
  /\ trace' = [trace EXCEPT ![c] = Append(@, "metrics_rec")]
  /\ UNCHANGED <<storeVars, authVars, pgVars>>
  /\ UNCHANGED <<clock, enableAuth, call, harg, vres, vtime, seen, cerr, metrics>>

\* OtelLogging*Interceptor after the inner stages returned: the span gets its
\* status and attributes and is ended (deferred), and the outcome goes up.
OtelLoggingEnd(c) ==
  /\ otel.enabled
  /\ StageOf(c) = "logging" /\ cpc[c].ph = "up"
  /\ otel' = [otel EXCEPT !.span[c] = EndSpan(@, otel.ctx[c], cerr[c])]
  /\ cpc' = [cpc EXCEPT ![c] = Up(c)]
  /\ trace' = [trace EXCEPT ![c] = Append(@, "log_end")]
  /\ UNCHANGED <<storeVars, authVars, pgVars>>
  /\ UNCHANGED <<clock, enableAuth, call, harg, vres, vtime, seen, cerr, metrics>>

\* The credentials of the calls: a token that validates and one that does not.
OtelCreds == {[md |-> TRUE, auth |-> <<Bearer(t)>>] : t \in {TokJohn, TokGarbage}}

ReceiveOtel(c) ==
  /\ Receive(c)
  /\ call'[c].cred \in OtelCreds

\* main is run with or without -otel (InitializeOtelMetrics has succeeded
\* when it is on) and with or without -auth.
InitOtel == InitBase /\ otel \in {NoOtel, [NoOtel EXCEPT !.enabled = TRUE]}

NextOtel ==
  \/ \E c \in Calls : ReceiveOtel(c)
  \/ \E c \in Calls : LoggingStart(c)
  \/ \E c \in Calls : MetricsStart(c)
  \/ \E c \in Calls : OtelLoggingStart(c)
  \/ \E c \in Calls : OtelMetricsStart(c)
  \/ \E c \in Calls : JWTAuthValidate(c)
  \/ \E c \in Calls : JWTAuthApprove(c)
  \/ \E c \in Calls : Handler(c)
  \/ \E c \in Calls : MetricsRecord(c)
  \/ \E c \in Calls : LoggingEnd(c)
  \/ \E c \in Calls : OtelMetricsRecord(c)
  \/ \E c \in Calls : OtelLoggingEnd(c)

SpecOtel == InitOtel /\ [][NextOtel]_vars

NextChain ==
  \/ Tick
  \/ \E c \in Calls : Receive(c)
  \/ \E c \in Calls : LoggingStart(c)
  \/ \E c \in Calls : MetricsStart(c)
  \/ \E c \in Calls : JWTAuthValidate(c)
  \/ \E c \in Calls : JWTAuthApprove(c)
  \/ \E c \in Calls : Handler(c)
  \/ \E c \in Calls : MetricsRecord(c)
  \/ \E c \in Calls : LoggingEnd(c)

SpecChain == InitChain /\ [][NextChain]_vars

\* ------------------------------- the metrics collector and its other callers
\* GetStats, under m.mu.RLock(): the two totals, the error rate (kept as the
\* fraction it is computed from) and, for each method with recorded
\* durations, its count and average duration (durations are one opaque
\* value, which is then their average).
GetStats(m) ==
  [total_requests |-> m.totalRequests,
   total_errors |-> m.totalErrors,
   error_rate |-> IF m.totalRequests > 0
                  THEN <<m.totalErrors * 100, m.totalRequests>> ELSE <<0, 1>>,
   methods |-> [method \in {x \in Methods : Len(m.requestDurations[x]) > 0} |->
                  [count |-> m.methodCounts[method],
                   avg_duration |-> m.requestDurations[method][1]]]]

\* (variant of Reset that keeps the error total)
Reset_KeepErrors(m) == [NewMetricsCollector EXCEPT !.totalErrors = m.totalErrors]

\* Reset, under m.mu.Lock()
Reset(m) == NewMetricsCollector

\* A reader calls GetMetrics().GetStats(); last holds what it got, and
\* whether the collector was reset before.
CallGetStats ==
  /\ last' = [op |-> "GetStats", stats |-> GetStats(metrics),
              reset |-> (last # Nil /\ last.reset)]
  /\ UNCHANGED <<chainVars, storeVars, authVars, otelVars, rows>>

\* Someone calls GetMetrics().Reset().
CallReset ==
  /\ metrics' = Reset(metrics)
  /\ last' = [op |-> "Reset", stats |-> Nil, reset |-> TRUE]
  /\ UNCHANGED <<storeVars, authVars, otelVars, rows>>
  /\ UNCHANGED <<clock, enableAuth, cpc, call, harg, vres, vtime, seen, cerr,
                 trace>>

\* Without -auth nothing reads the credentials: the calls carry one.
ReceiveAny(c) ==
  /\ Receive(c)
  /\ call'[c].cred.auth = <<Bearer(TokJohn)>>

NextMetrics ==
  \/ \E c \in Calls : ReceiveAny(c)
  \/ \E c \in Calls : LoggingStart(c)
  \/ \E c \in Calls : MetricsStart(c)
  \/ \E c \in Calls : Handler(c)
  \/ \E c \in Calls : MetricsRecord(c)
  \/ \E c \in Calls : LoggingEnd(c)
  \/ CallGetStats
  \/ CallReset

\* The server is run without -auth: the chain is logging, metrics, handler.
InitMetrics == InitChain /\ enableAuth = FALSE

SpecMetrics == InitMetrics /\ [][NextMetrics]_vars

InitToken == InitChain /\ enableAuth = TRUE

\* ------------------------------------------------ RequireRole on its own
\* &auth.Claims{Roles: roles}
ClaimsWith(roles) == [TokJohn.claims EXCEPT !.roles = roles]

\* The contexts RequireRole is applied to: without a value under
\* ClaimsContextKey, with a value that is no *auth.Claims, with claims.
RoleContexts ==
  LET ctx == Background([md |-> FALSE, auth |-> <<>>]) IN
  {ctx, WithValue(ctx, [other |-> "admin"])}
    \cup {WithValue(ctx, ClaimsWith(r)) :
            r \in {<<>>, <<"user">>, <<"admin", "user">>, <<"moderator">>,
                   <<"user", "moderator">>}}

\* The role lists RequireRole is built with.
RequiredLists == {<<>>, <<"admin">>, <<"user">>, <<"admin", "moderator">>}

\* A caller builds the context of call c.
NewRoleContext(c) ==
  /\ rq[c] = NoCheck
  /\ \E ctx \in RoleContexts : rq' = [rq EXCEPT ![c].ctx = ctx]
  /\ UNCHANGED <<chainVars, storeVars, tk, pgVars, otelVars>>

\* RequireRole(roles...)(ctx)
CallRequireRole(c) ==
  /\ rq[c].ctx # Nil /\ rq[c].code = "none"
  /\ \E roles \in RequiredLists :
       rq' = [rq EXCEPT ![c].roles = roles,
                        ![c].code = RequireRole(roles, rq[c].ctx)]
  /\ UNCHANGED <<chainVars, storeVars, tk, pgVars, otelVars>>

NextRole ==
  \/ \E c \in Calls : NewRoleContext(c)
  \/ \E c \in Calls : CallRequireRole(c)

SpecRole == InitToken /\ [][NextRole]_vars

\* ------------------------------------------------ the manager on its own
\* manager.GenerateToken(userID, username, email, roles)
IssueToken(Ids) ==
  /\ tk = NoToken
  /\ \E id \in Ids :
       tk' = [NoToken EXCEPT
                !.token = GenerateToken(Manager, id.userID, id.username,
                                        id.email, id.roles, clock),
                !.identity = id]
  /\ UNCHANGED <<chainVars, storeVars, rq, pgVars, otelVars>>

\* A caller comes with a token the manager did not issue.
PresentToken(T) ==
  /\ tk = NoToken
  /\ \E t \in T : tk' = [NoToken EXCEPT !.token = t]
  /\ UNCHANGED <<chainVars, storeVars, rq, pgVars, otelVars>>

\* manager.ValidateToken(token)
CallValidateToken ==
  /\ tk.token # Nil /\ tk.validated = Nil
  /\ tk' = [tk EXCEPT !.validated =
                        [res |-> ValidateToken(Manager, tk.token, clock),
                         at |-> clock]]
  /\ UNCHANGED <<chainVars, storeVars, rq, pgVars, otelVars>>

\* manager.RefreshToken(token)
CallRefreshToken ==
  /\ tk.token # Nil /\ tk.refreshed = Nil
  /\ tk' = [tk EXCEPT !.refreshed =
                        [res |-> RefreshToken(Manager, tk.token, clock),
                         at |-> clock]]
  /\ UNCHANGED <<chainVars, storeVars, rq, pgVars, otelVars>>

NextToken ==
  \/ Tick
  \/ IssueToken(Identities)
  \/ PresentToken(ForeignTokens)
  \/ CallValidateToken
  \/ CallRefreshToken

SpecToken == InitToken /\ [][NextToken]_vars

\* ------------------------------------------- validateJWT called on its own
\* The contexts validateJWT is called with: every credential, and a header
\* that has neither the prefix nor a token.
JWTCreds == Creds \cup {[md |-> TRUE, auth |-> <<[scheme |-> "", rest |-> TokEmpty]>>]}

Checked == [at |-> 0, ph |-> "token"]

\* A caller builds the incoming context of call c.
NewIncomingContext(c) ==
  /\ cpc[c] = Idle /\ call[c] = Nil
  /\ \E cred \in JWTCreds :
       /\ call' = [call EXCEPT ![c] = [method |-> "/proto.UserService/GetUser",
                                       kind |-> "unary", cred |-> cred]]
       /\ harg' = [harg EXCEPT ![c] = Background(cred)]
  /\ UNCHANGED <<storeVars, authVars, otelVars, pgVars>>
  /\ UNCHANGED <<clock, enableAuth, cpc, vres, vtime, seen, cerr, trace, metrics>>

\* validateJWT(ctx, jwtManager) up to its call of ValidateToken.
ValidateJWTStart(c) ==
  /\ cpc[c] = Idle /\ call[c] # Nil
  /\ LET e == ExtractToken(harg[c]) IN
       IF e.code # "OK"
       THEN /\ vres' = [vres EXCEPT ![c] = [claims |-> Nil, code |-> e.code,
                                             msg |-> e.msg]]
            /\ vtime' = [vtime EXCEPT ![c] = clock]
            /\ cpc' = [cpc EXCEPT ![c] = Done]
            /\ trace' = [trace EXCEPT ![c] = Append(@, "extract")]
       ELSE /\ cpc' = [cpc EXCEPT ![c] = Checked]
            /\ trace' = [trace EXCEPT ![c] = Append(@, "extract")]
            /\ UNCHANGED <<vres, vtime>>
  /\ UNCHANGED <<storeVars, authVars, otelVars, pgVars>>
  /\ UNCHANGED <<clock, enableAuth, call, harg, seen, cerr, metrics>>

\* jwtManager.ValidateToken(token) and the return of validateJWT.
ValidateJWTToken(c) ==
  /\ cpc[c] = Checked
  /\ vres' = [vres EXCEPT ![c] = CheckToken(ExtractToken(harg[c]).token,
                                           Manager, clock)]
  /\ vtime' = [vtime EXCEPT ![c] = clock]
  /\ cpc' = [cpc EXCEPT ![c] = Done]
  /\ trace' = [trace EXCEPT ![c] = Append(@, "ValidateToken")]
  /\ UNCHANGED <<storeVars, authVars, otelVars, pgVars>>
  /\ UNCHANGED <<clock, enableAuth, call, harg, seen, cerr, metrics>>

InitJWT == InitChain /\ enableAuth = TRUE

NextJWT ==
  \/ Tick
  \/ \E c \in Calls : NewIncomingContext(c)
  \/ \E c \in Calls : ValidateJWTStart(c)
  \/ \E c \in Calls : ValidateJWTToken(c)

SpecJWT == InitJWT /\ [][NextJWT]_vars

\* ---------------------------------------------------------- server/memory.go
cloneIntMap(m) == {<<kv[1], kv[2]>> : kv \in m}

cloneMap(m) == {<<kv[1], kv[2]>> : kv \in m}

cloneProfile(profile) ==
  IF profile = Nil THEN Nil
  ELSE [displayName |-> profile.displayName, bio |-> profile.bio,
        avatarUrl |-> profile.avatarUrl, dateOfBirth |-> profile.dateOfBirth,
        preferences |-> cloneIntMap(profile.preferences)]

cloneAddresses(addresses) ==
  [i \in 1..Len(addresses) |->
     [type |-> addresses[i].type, street |-> addresses[i].street,
      city |-> addresses[i].city, state |-> addresses[i].state,
      postalCode |-> addresses[i].postalCode, country |-> addresses[i].country,
      isPrimary |-> addresses[i].isPrimary]]

\* The copy the store keeps and hands out.  The contact value that is set
\* (email, phone) is copied with the other fields.
cloneUser_NoContact(user) ==
  [id |-> user.id, role |-> user.role, createDate |-> user.createDate,
   username |-> user.username, email |-> "", phone |-> "",
   profile |-> cloneProfile(user.profile), tags |-> user.tags,
   metadata |-> cloneMap(user.metadata), status |-> user.status,
   lastLogin |-> user.lastLogin, addresses |-> cloneAddresses(user.addresses)]

cloneUser(user) ==
  [id |-> user.id, role |-> user.role, createDate |-> user.createDate,
   username |-> user.username, email |-> user.email, phone |-> user.phone,
   profile |-> cloneProfile(user.profile), tags |-> user.tags,
   metadata |-> cloneMap(user.metadata), status |-> user.status,
   lastLogin |-> user.lastLogin, addresses |-> cloneAddresses(user.addresses)]

\* sync.RWMutex: Lock waits for the writer and the readers to leave, RLock
\* for the writer.
CanLock_Always(m) == TRUE

CanLock(m) == m.writer = "none" /\ m.readers = {}

CanRLock_Always(m) == TRUE

CanRLock(m) == m.writer = "none"

Unlock(m) == [m EXCEPT !.writer = "none"]

RUnlock(m, w) == [m EXCEPT !.readers = @ \ {w}]

\* The defaults MemoryStorage.AddUser sets on the user it is given.
WithDefaults(user, now) ==
  [user EXCEPT !.createDate = IF @ = Nil THEN Timestamp(now) ELSE @,
               !.status = IF @ = "INACTIVE" THEN "ACTIVE" ELSE @]

\* m.users[id] = user
Put(m, id, user) ==
  [i \in DOMAIN m \cup {id} |-> IF i = id THEN user ELSE m[i]]

\* (variant of Remove that deletes nothing)
Remove_None(m, id) == m

\* delete(m.users, id)
Remove(m, id) == [i \in DOMAIN m \ {id} |-> m[i]]

\* ---------------------------------------------------------- server/server.go
\* A handler returns: its locals are gone, the frame keeps what it was called
\* with (a unary call's request), the count it saw, and what it returned.
Return(f, code, val) ==
  [NoFrame EXCEPT !.op = f.op,
                  !.user = IF f.op \in {"BatchAddUsers", "SyncUsers",
                                         "UserActivityStream"}
                           THEN Nil ELSE f.user,
                  !.id = f.id, !.mask = f.mask,
                  !.req = IF f.op = "UserActivityStream" THEN Nil ELSE f.req,
                  !.nsent = f.nsent,
                  !.count = f.count, !.code = code, !.val = val]

Empty == [empty |-> TRUE]

\* Server.AddUser after Count: the bootstrap rule and the required fields.
AfterCount_NoBootstrap(f, count) ==
  LET g == [f EXCEPT !.count = count] IN
  IF f.user.id = 0 THEN Return(g, "InvalidArgument", Nil)
  ELSE IF f.user.username = "" THEN Return(g, "InvalidArgument", Nil)
  ELSE [g EXCEPT !.pc = "add_lock"]

\* (variant of AfterCount without the check of the id)
AfterCount_AnyId(f, count) ==
  LET g == [f EXCEPT !.count = count] IN
  IF count = 0 /\ f.user.role # "ADMIN" THEN Return(g, "InvalidArgument", Nil)
  ELSE IF f.user.username = "" THEN Return(g, "InvalidArgument", Nil)
  ELSE [g EXCEPT !.pc = "add_lock"]

AfterCount(f, count) ==
  LET g == [f EXCEPT !.count = count] IN
  IF count = 0 /\ f.user.role # "ADMIN" THEN Return(g, "InvalidArgument", Nil)
  ELSE IF f.user.id = 0 THEN Return(g, "InvalidArgument", Nil)
  ELSE IF f.user.username = "" THEN Return(g, "InvalidArgument", Nil)
  ELSE [g EXCEPT !.pc = "add_lock"]

\* fmt.Sprintf("user %d: %v", totalReceived, err)
ItemError(n, msg) == <<n, msg>>

\* What the caller of MemoryStorage.AddUser does with its result.
AfterAdd_Abort(f, err) ==
  IF err # "nil" THEN Return(f, err, Nil)
  ELSE IF f.op = "AddUser" THEN Return(f, "OK", Empty)
  ELSE IF f.op = "BatchAddUsers" THEN [f EXCEPT !.added = @ + 1, !.pc = "recv"]
  ELSE [f EXCEPT !.pc = "send",
                 !.val = [userId |-> f.user.id, status |-> "SUCCESS",
                          errorMessage |-> "", updatedFields |-> <<"created">>]]

AfterAdd(f, err) ==
  CASE f.op = "AddUser" ->
         IF err # "nil" THEN Return(f, err, Nil) ELSE Return(f, "OK", Empty)
    [] f.op = "BatchAddUsers" ->
         IF err # "nil"
         THEN [f EXCEPT !.failed = @ + 1,
                        !.errors = Append(@, ItemError(f.received, err)),
                        !.pc = "recv"]
         ELSE [f EXCEPT !.added = @ + 1, !.pc = "recv"]
    [] f.op = "SyncUsers" ->
         [f EXCEPT !.pc = "send",
                   !.val = IF err # "nil"
                           THEN [userId |-> f.user.id, status |-> "FAILED",
                                 errorMessage |-> err, updatedFields |-> <<>>]
                           ELSE [userId |-> f.user.id, status |-> "SUCCESS",
                                 errorMessage |-> "",
                                 updatedFields |-> <<"created">>]]

\* (variant of AfterGet whose UserActivityStream also marks the user active)
AfterGet_TouchStatus(f, user, err) ==
  CASE f.op = "GetUser" ->
         IF err # "nil" THEN Return(f, err, Nil) ELSE Return(f, "OK", user)
    [] f.op = "UpdateUser" ->
         IF err # "nil" THEN Return(f, err, Nil)
         ELSE [f EXCEPT !.existing = user, !.pc = "mask"]
    [] f.op = "UserActivityStream" ->
         IF err # "nil" THEN [f EXCEPT !.pc = "send"]
         ELSE [f EXCEPT !.user = [user EXCEPT !.lastLogin = f.req.timestamp,
                                              !.status = "ONLINE"],
                        !.pc = "upd_lock"]

\* What the caller of MemoryStorage.GetUser does with its result.
\* UserActivityStream sets the last login on the user it got, and sends
\* its response without the update when it got none.
AfterGet(f, user, err) ==
  CASE f.op = "GetUser" ->
         IF err # "nil" THEN Return(f, err, Nil) ELSE Return(f, "OK", user)
    [] f.op = "UpdateUser" ->
         IF err # "nil" THEN Return(f, err, Nil)
         ELSE [f EXCEPT !.existing = user, !.pc = "mask"]
    [] f.op = "UserActivityStream" ->
         IF err # "nil" THEN [f EXCEPT !.pc = "send"]
         ELSE [f EXCEPT !.user = [user EXCEPT !.lastLogin = f.req.timestamp],
                        !.pc = "upd_lock"]

\* (variant of AfterUpdate that reports a storage error as Internal)
AfterUpdate_Internal(f, err) ==
  IF f.op = "UpdateUser"
  THEN IF err # "nil" THEN Return(f, "Internal", Nil)
       ELSE Return(f, "OK", f.existing)
  ELSE IF f.op = "SyncUsers"
  THEN [f EXCEPT !.pc = "send",
                 !.val = [userId |-> f.user.id,
                          status |-> IF err # "nil" THEN "FAILED" ELSE "SUCCESS",
                          errorMessage |-> IF err # "nil" THEN err ELSE "",
                          updatedFields |->
                            IF err # "nil" THEN <<>>
                            ELSE <<"role", "username", "profile", "status">>]]
  ELSE [f EXCEPT !.pc = "send"]

\* What the caller of MemoryStorage.UpdateUser does with its result.
\* UserActivityStream logs an error and sends its response.
AfterUpdate(f, err) ==
  CASE f.op = "UpdateUser" ->
         IF err # "nil" THEN Return(f, err, Nil) ELSE Return(f, "OK", f.existing)
    [] f.op = "SyncUsers" ->
         [f EXCEPT !.pc = "send",
                   !.val = IF err # "nil"
                           THEN [userId |-> f.user.id, status |-> "FAILED",
                                 errorMessage |-> err, updatedFields |-> <<>>]
                           ELSE [userId |-> f.user.id, status |-> "SUCCESS",
                                 errorMessage |-> "",
                                 updatedFields |->
                                   <<"role", "username", "profile", "status">>]]
    [] f.op = "UserActivityStream" -> [f EXCEPT !.pc = "send"]

\* fmt.Sprintf("User %d not found", id), fmt.Sprintf("Activity %s recorded
\* for user %d", type, id)
ActivityMessage(activity, exists) ==
  IF exists THEN <<"Activity recorded", activity.activityType, activity.userId>>
  ELSE <<"User not found", activity.userId>>

AfterExists_SkipMissing(f, exists, now) ==
  IF f.op = "UserActivityStream"
  THEN IF ~exists THEN [f EXCEPT !.pc = "recv"]
       ELSE [f EXCEPT !.val = [userId |-> f.req.userId, acknowledged |-> exists,
                               processedAt |-> Timestamp(now),
                               message |-> ActivityMessage(f.req, exists)],
                      !.pc = IF f.req.activityType = "LOGIN" THEN "get_lock"
                             ELSE "send"]
  ELSE IF exists THEN [f EXCEPT !.pc = "upd_lock"]
  ELSE [f EXCEPT !.pc = "add_lock"]

\* After UserExists.  SyncUsers updates the user it has and adds the one it
\* lacks; UserActivityStream builds its response and, for a LOGIN of a user
\* it has, goes on to read that user.
AfterExists(f, exists, now) ==
  IF f.op = "UserActivityStream"
  THEN LET response == [userId |-> f.req.userId, acknowledged |-> exists,
                        processedAt |-> Timestamp(now),
                        message |-> ActivityMessage(f.req, exists)]
       IN IF exists /\ f.req.activityType = "LOGIN"
          THEN [f EXCEPT !.val = response, !.pc = "get_lock"]
          ELSE [f EXCEPT !.val = response, !.pc = "send"]
  ELSE IF exists THEN [f EXCEPT !.pc = "upd_lock"]
  ELSE [f EXCEPT !.pc = "add_lock"]

\* The error one path of the mask makes UpdateUser return: "id", and
\* the default case of the switch.
PathError_NoDefault(path) ==
  IF path = "id" THEN "InvalidArgument" ELSE "nil"

PathError(path) ==
  IF path = "id" THEN "InvalidArgument"
  ELSE IF path \in {KnownPaths[i] : i \in 1..Len(KnownPaths)} THEN "nil"
  ELSE "InvalidArgument"

\* existingUser.<field> = req.User.<field>, for one path of the mask.
ApplyPath_AllFields(existing, user, path) ==
  [existing EXCEPT !.role = user.role, !.username = user.username,
                   !.email = user.email, !.phone = user.phone,
                   !.profile = user.profile, !.tags = user.tags,
                   !.metadata = user.metadata, !.status = user.status,
                   !.lastLogin = user.lastLogin, !.addresses = user.addresses]

ApplyPath(existing, user, path) ==
  CASE path = "role" -> [existing EXCEPT !.role = user.role]
    [] path = "username" -> [existing EXCEPT !.username = user.username]
    [] path = "email" -> [existing EXCEPT !.email = user.email]
    [] path = "phone" -> [existing EXCEPT !.phone = user.phone]
    [] path = "profile" -> [existing EXCEPT !.profile = user.profile]
    [] path = "tags" -> [existing EXCEPT !.tags = user.tags]
    [] path = "metadata" -> [existing EXCEPT !.metadata = user.metadata]
    [] path = "status" -> [existing EXCEPT !.status = user.status]
    [] path = "last_login" -> [existing EXCEPT !.lastLogin = user.lastLogin]
    [] path = "addresses" -> [existing EXCEPT !.addresses = user.addresses]
    [] OTHER -> existing

\* No mask: every field but id and create_date is taken from the request.
ReplaceAll_Whole(existing, user) == user

ReplaceAll(existing, user) ==
  [existing EXCEPT !.role = user.role, !.username = user.username,
                   !.email = user.email, !.phone = user.phone,
                   !.profile = user.profile, !.tags = user.tags,
                   !.metadata = user.metadata, !.status = user.status,
                   !.lastLogin = user.lastLogin, !.addresses = user.addresses]

\* --------------------------------------------------- the handlers, step by step
\* The steps below take a worker w, and the steps that start a call or read
\* a stream the set (U of users, I of ids, P of mask paths) the input is
\* drawn from.  A frame at "idle" has no call running.
Step(w, f) == h' = [h EXCEPT ![w] = f]

Call(op) == [NoFrame EXCEPT !.op = op]

\* m.mu.Lock() of AddUser, UpdateUser and DeleteUser.
Lock(w) ==
  /\ h[w].pc \in {"add_lock", "upd_lock", "del_lock"}
  /\ CanLock(mu)
  /\ mu' = [mu EXCEPT !.writer = w]
  /\ Step(w, [h[w] EXCEPT !.pc = CASE @ = "add_lock" -> "add_check"
                                   [] @ = "upd_lock" -> "upd_body"
                                   [] @ = "del_lock" -> "del_body"])
  /\ UNCHANGED <<chainVars, authVars, otelVars, pgVars, heap, users, updated>>

\* m.mu.RLock() of Count, GetUser, UserExists, ListUsers and ListUsersByRole.
RLock(w) ==
  /\ h[w].pc \in {"count_lock", "get_lock", "exists_lock", "list_lock"}
  /\ CanRLock(mu)
  /\ mu' = [mu EXCEPT !.readers = @ \cup {w}]
  /\ Step(w, [h[w] EXCEPT !.pc = CASE @ = "count_lock" -> "count_body"
                                   [] @ = "get_lock" -> "get_body"
                                   [] @ = "exists_lock" -> "exists_body"
                                   [] @ = "list_lock" -> "list_body"])
  /\ UNCHANGED <<chainVars, authVars, otelVars, pgVars, heap, users, updated>>

\* MemoryStorage.Count under the read lock, and the caller up to its next
\* storage call.
MemCount(w) ==
  /\ h[w].pc = "count_body"
  /\ mu' = RUnlock(mu, w)
  /\ Step(w, AfterCount(h[w], Cardinality(DOMAIN users)))
  /\ UNCHANGED <<chainVars, authVars, otelVars, pgVars, heap, users, updated>>

\* MemoryStorage.AddUser under the write lock: the existence check ...
MemAddCheck(w) ==
  /\ h[w].pc = "add_check"
  /\ IF h[w].user.id \in DOMAIN users
     THEN /\ mu' = Unlock(mu)
          /\ Step(w, AfterAdd(h[w], "AlreadyExists"))
     ELSE /\ mu' = mu
          /\ Step(w, [h[w] EXCEPT !.pc = "add_write"])
  /\ UNCHANGED <<chainVars, authVars, otelVars, pgVars, heap, users, updated>>

\* ... and the write: defaults set on the caller's user, its clone stored.
MemAddWrite(w) ==
  /\ h[w].pc = "add_write"
  /\ LET user == WithDefaults(h[w].user, clock) IN
       /\ users' = Put(users, user.id, cloneUser(user))
       /\ Step(w, AfterAdd([h[w] EXCEPT !.user = user], "nil"))
  /\ mu' = Unlock(mu)
  /\ UNCHANGED <<chainVars, authVars, otelVars, pgVars, heap, updated>>

\* MemoryStorage.GetUser under the read lock.
MemGet(w) ==
  /\ h[w].pc = "get_body"
  /\ mu' = RUnlock(mu, w)
  /\ IF h[w].id \in DOMAIN users
     THEN Step(w, AfterGet(h[w], cloneUser(users[h[w].id]), "nil"))
     ELSE Step(w, AfterGet(h[w], Nil, "NotFound"))
  /\ UNCHANGED <<chainVars, authVars, otelVars, pgVars, heap, users, updated>>

\* MemoryStorage.UpdateUser under the write lock.  UpdateUser stores the
\* merged user, SyncUsers the user it received.
MemUpdate(w) ==
  /\ h[w].pc = "upd_body"
  /\ mu' = Unlock(mu)
  /\ LET user == IF h[w].op = "UpdateUser" THEN h[w].existing ELSE h[w].user IN
       IF user.id \in DOMAIN users
       THEN /\ users' = Put(users, user.id, cloneUser(user))
            /\ Step(w, AfterUpdate(h[w], "nil"))
       ELSE /\ users' = users
            /\ Step(w, AfterUpdate(h[w], "NotFound"))
  /\ UNCHANGED <<chainVars, authVars, otelVars, pgVars, heap, updated>>

\* MemoryStorage.DeleteUser under the write lock, and Server.DeleteUser's
\* return.
MemDelete(w) ==
  /\ h[w].pc = "del_body"
  /\ mu' = Unlock(mu)
  /\ IF h[w].id \in DOMAIN users
     THEN /\ users' = Remove(users, h[w].id)
          /\ Step(w, Return(h[w], "OK", Empty))
     ELSE /\ users' = users
          /\ Step(w, Return(h[w], "NotFound", Nil))
  /\ UNCHANGED <<chainVars, authVars, otelVars, pgVars, heap, updated>>

\* MemoryStorage.UserExists under the read lock.
MemExists(w) ==
  /\ h[w].pc = "exists_body"
  /\ mu' = RUnlock(mu, w)
  /\ LET id == IF h[w].op = "UserActivityStream" THEN h[w].id
               ELSE h[w].user.id
     IN Step(w, AfterExists(h[w], id \in DOMAIN users, clock))
  /\ UNCHANGED <<chainVars, authVars, otelVars, pgVars, heap, users, updated>>

\* Server.AddUser is called with a user.
AddUser(w, U) ==
  /\ h[w].pc = "idle"
  /\ \E user \in U :
       Step(w, [Call("AddUser") EXCEPT !.user = user, !.pc = "count_lock"])
  /\ UNCHANGED <<chainVars, authVars, otelVars, pgVars, heap, users, mu, updated>>

\* Server.GetUser is called with an id.
GetUser(w, I) ==
  /\ h[w].pc = "idle"
  /\ \E id \in I :
       LET f == [Call("GetUser") EXCEPT !.id = id] IN
         IF id = 0 THEN Step(w, Return(f, "InvalidArgument", Nil))
         ELSE Step(w, [f EXCEPT !.pc = "get_lock"])
  /\ UNCHANGED <<chainVars, authVars, otelVars, pgVars, heap, users, mu, updated>>

\* Server.DeleteUser is called with an id.
DeleteUser(w, I) ==
  /\ h[w].pc = "idle"
  /\ \E id \in I :
       LET f == [Call("DeleteUser") EXCEPT !.id = id] IN
         IF id = 0 THEN Step(w, Return(f, "InvalidArgument", Nil))
         ELSE Step(w, [f EXCEPT !.pc = "del_lock"])
  /\ UNCHANGED <<chainVars, authVars, otelVars, pgVars, heap, users, mu, updated>>

\* Server.UpdateUser is called with a request: its user (or none).  Its
\* mask is read path by path in UpdateUserPath.  A behaviour makes one
\* UpdateUser call, anywhere among its other calls.
UpdateUser(w, U) ==
  /\ h[w].pc = "idle"
  /\ ~updated
  /\ updated' = TRUE
  /\ \E user \in U \cup {Nil} :
       LET f == [Call("UpdateUser") EXCEPT !.user = user] IN
         IF user = Nil THEN Step(w, Return(f, "InvalidArgument", Nil))
         ELSE IF user.id = 0 THEN Step(w, Return(f, "InvalidArgument", Nil))
         ELSE Step(w, [f EXCEPT !.id = user.id, !.pc = "get_lock"])
  /\ UNCHANGED <<chainVars, authVars, otelVars, pgVars, heap, users, mu>>

\* The order masks list their paths in.
PathOrder == KnownPaths \o <<"id", "create_date">>

PathIndex(path) == CHOOSE i \in 1..Len(PathOrder) : PathOrder[i] = path

\* Server.UpdateUser's loop over the mask's paths, one iteration per step
\* (paths are drawn from the set P), and with the mask exhausted the
\* hand-over to the store.  An empty mask replaces every field.
UpdateUserPath(w, P) ==
  /\ h[w].pc = "mask"
  /\ \/ /\ Len(h[w].mask) < MaxMask
        /\ \E path \in P :
             /\ \A i \in 1..Len(h[w].mask) :
                  PathIndex(h[w].mask[i]) < PathIndex(path)
             /\ LET f == [h[w] EXCEPT !.mask = Append(@, path)] IN
                  IF PathError(path) # "nil"
                  THEN Step(w, Return(f, PathError(path), Nil))
                  ELSE Step(w, [f EXCEPT !.existing =
                                           ApplyPath(@, f.user, path)])
     \/ /\ IF h[w].mask = <<>>
           THEN Step(w, [h[w] EXCEPT !.existing = ReplaceAll(@, h[w].user),
                                     !.pc = "upd_lock"])
           ELSE Step(w, [h[w] EXCEPT !.pc = "upd_lock"])
  /\ UNCHANGED <<chainVars, authVars, otelVars, pgVars, heap, users, mu, updated>>

\* Server.BatchAddUsers and Server.SyncUsers are called with a stream.
BatchAddUsers(w) ==
  /\ h[w].pc = "idle"
  /\ Step(w, [Call("BatchAddUsers") EXCEPT !.pc = "recv"])
  /\ UNCHANGED <<chainVars, authVars, otelVars, pgVars, heap, users, mu, updated>>

SyncUsers(w) ==
  /\ h[w].pc = "idle"
  /\ Step(w, [Call("SyncUsers") EXCEPT !.pc = "recv"])
  /\ UNCHANGED <<chainVars, authVars, otelVars, pgVars, heap, users, mu, updated>>

SyncFailed(user, msg) ==
  [userId |-> user.id, status |-> "FAILED", errorMessage |-> msg,
   updatedFields |-> <<>>]

AfterRecv_Uncounted(f, user) ==
  LET g == [f EXCEPT !.received = @ + 1, !.user = user] IN
  IF f.op = "BatchAddUsers"
  THEN IF user.id = 0 \/ user.username = "" THEN g
       ELSE [g EXCEPT !.pc = "add_lock"]
  ELSE IF user.id = 0
  THEN [g EXCEPT !.pc = "send",
                 !.val = [userId |-> user.id, status |-> "FAILED",
                          errorMessage |-> "user ID must be greater than 0",
                          updatedFields |-> <<>>]]
  ELSE [g EXCEPT !.pc = "exists_lock"]

\* The loop body from a received user to the next storage call.
AfterRecv(f, user) ==
  LET g == [f EXCEPT !.received = @ + 1, !.user = user] IN
  CASE f.op = "BatchAddUsers" ->
         IF user.id = 0
         THEN [g EXCEPT !.failed = @ + 1,
                        !.errors = Append(@, ItemError(g.received,
                                                "ID must be greater than 0"))]
         ELSE IF user.username = ""
         THEN [g EXCEPT !.failed = @ + 1,
                        !.errors = Append(@, ItemError(g.received,
                                                "username is required"))]
         ELSE [g EXCEPT !.pc = "add_lock"]
    [] f.op = "SyncUsers" ->
         IF user.id = 0
         THEN [g EXCEPT !.pc = "send",
                        !.val = SyncFailed(user, "user ID must be greater than 0")]
         ELSE [g EXCEPT !.pc = "exists_lock"]

\* The client closed the stream: BatchAddUsers sends its summary (the send
\* may fail), SyncUsers returns.
AfterEOF(f, sendOk, now) ==
  CASE f.op = "BatchAddUsers" ->
         IF sendOk
         THEN Return(f, "OK", [totalReceived |-> f.received,
                               totalAdded |-> f.added,
                               totalFailed |-> f.failed,
                               errors |-> f.errors,
                               processedAt |-> Timestamp(now)])
         ELSE Return(f, "Unavailable", Nil)
    [] f.op = "SyncUsers" -> Return(f, "OK", Nil)

\* stream.Recv() of BatchAddUsers and SyncUsers: the next user (of at most n),
\* the end of the stream, or an error.
Recv(w, U, n) ==
  /\ h[w].pc = "recv"
  /\ h[w].op \in {"BatchAddUsers", "SyncUsers"}
  /\ \/ /\ h[w].received < n
        /\ \E user \in U : Step(w, AfterRecv(h[w], user))
     \/ \E sendOk \in BOOLEAN : Step(w, AfterEOF(h[w], sendOk, clock))
     \/ Step(w, Return(h[w], "Canceled", Nil))
  /\ UNCHANGED <<chainVars, authVars, otelVars, pgVars, heap, users, mu, updated>>

\* (variant of Send whose failure ends the handler without an error)
Send_ErrorAsOK(w) ==
  /\ h[w].pc = "send"
  /\ \/ Step(w, [h[w] EXCEPT !.val = Nil, !.nsent = @ + 1, !.pc = "recv"])
     \/ Step(w, Return(h[w], "OK", Nil))
  /\ UNCHANGED <<chainVars, authVars, otelVars, pgVars, heap, users, mu, updated>>

\* stream.Send(response) of SyncUsers and UserActivityStream: sent, or failed
\* and the handler returns the error.
Send(w) ==
  /\ h[w].pc = "send"
  /\ \/ Step(w, [h[w] EXCEPT !.val = Nil, !.nsent = @ + 1, !.pc = "recv"])
     \/ Step(w, Return(h[w], "Unavailable", Nil))
  /\ UNCHANGED <<chainVars, authVars, otelVars, pgVars, heap, users, mu, updated>>

\* The activities a UserActivityStream client sends.
Activities ==
  {[userId |-> i, activityType |-> t, timestamp |-> Timestamp(1)] :
     i \in 0..MaxId, t \in {"LOGIN", "VIEW_PAGE"}}

\* Server.UserActivityStream is called with a stream.
UserActivityStream(w) ==
  /\ h[w].pc = "idle"
  /\ Step(w, [Call("UserActivityStream") EXCEPT !.pc = "recv"])
  /\ UNCHANGED <<chainVars, authVars, otelVars, pgVars, heap, users, mu, updated>>

\* stream.Recv() of UserActivityStream: the next activity (of at most n),
\* the end of the stream, or an error.
RecvActivity(w, A, n) ==
  /\ h[w].pc = "recv"
  /\ h[w].op = "UserActivityStream"
  /\ \/ /\ h[w].received < n
        /\ \E activity \in A :
             Step(w, [h[w] EXCEPT !.received = @ + 1, !.req = activity,
                                  !.id = activity.userId,
                                  !.pc = "exists_lock"])
     \/ Step(w, Return(h[w], "OK", Nil))
     \/ Step(w, Return(h[w], "Canceled", Nil))
  /\ UNCHANGED <<chainVars, authVars, otelVars, pgVars, heap, users, mu, updated>>

\* ------------------------------------------------- the server-streaming lists
\* ListUsersRequest: created_since, older_than (a duration, in seconds),
\* status, page_size, page_token.
NoFilter ==
  [createdSince |-> Nil, olderThan |-> Nil, status |-> "INACTIVE",
   pageSize |-> 0, pageToken |-> ""]

ListRequests ==
  {NoFilter,
   [NoFilter EXCEPT !.status = "SUSPENDED"],
   [NoFilter EXCEPT !.createdSince = Timestamp(0)],
   [NoFilter EXCEPT !.olderThan = [seconds |-> 0]]}

ListRoles == {"ADMIN", "MEMBER", "GUEST"}

\* Server.ListUsers: the ListFilter built from the request.
NewFilter(req, now) ==
  [createdSince |-> IF req.createdSince = Nil THEN Nil
                    ELSE [unix |-> req.createdSince.seconds],
   olderThan |-> IF req.olderThan = Nil THEN Nil
                 ELSE [unix |-> now - req.olderThan.seconds],
   status |-> IF req.status # "INACTIVE" THEN [is |-> req.status] ELSE Nil,
   pageSize |-> req.pageSize, pageToken |-> req.pageToken]

\* Timestamp.AsTime(): a nil timestamp is the epoch.
AsTime(t) == IF t = Nil THEN 0 ELSE t.seconds

\* MemoryStorage.ListUsers: the filters a user has to pass (a nil filter
\* lets every user pass).
\* (variant of Matches whose older-than filter keeps the boundary)
Matches_Inclusive(user, filter) ==
  \/ filter = Nil
  \/ /\ ~(filter.createdSince # Nil
            /\ AsTime(user.createDate) < filter.createdSince.unix)
     /\ ~(filter.olderThan # Nil
            /\ AsTime(user.createDate) > filter.olderThan.unix)
     /\ ~(filter.status # Nil /\ user.status # filter.status.is)

Matches(user, filter) ==
  \/ filter = Nil
  \/ /\ ~(filter.createdSince # Nil
            /\ AsTime(user.createDate) < filter.createdSince.unix)
     /\ ~(filter.olderThan # Nil
            /\ AsTime(user.createDate) >= filter.olderThan.unix)
     /\ ~(filter.status # Nil /\ user.status # filter.status.is)

\* The orders a range over a map can visit the keys S in.
Orders(S) ==
  {o \in [1..Cardinality(S) -> S] :
     \A i, j \in 1..Cardinality(S) : i # j => o[i] # o[j]}

\* Server.ListUsers and Server.ListUsersByRole are called with a request.
ListUsers(w, Q) ==
  /\ h[w].pc = "idle"
  /\ \E q \in Q :
       Step(w, [Call("ListUsers") EXCEPT
                  !.req = [request |-> q, filter |-> NewFilter(q, clock)],
                  !.pc = "list_lock"])
  /\ UNCHANGED <<chainVars, authVars, otelVars, pgVars, heap, users, mu, updated>>

ListUsersByRole(w, Rs) ==
  /\ h[w].pc = "idle"
  /\ \E role \in Rs :
       Step(w, [Call("ListUsersByRole") EXCEPT !.req = [role |-> role],
                                              !.pc = "list_lock"])
  /\ UNCHANGED <<chainVars, authVars, otelVars, pgVars, heap, users, mu, updated>>

\* The handler after the enumeration: nothing enumerated is NotFound.
AfterList_EmptyOK(f, result) ==
  IF Len(result) = 0 THEN Return(f, "OK", Nil)
  ELSE [f EXCEPT !.result = result, !.pc = "stream"]

AfterList(f, result) ==
  IF Len(result) = 0 THEN Return(f, "NotFound", Nil)
  ELSE [f EXCEPT !.result = result, !.pc = "stream"]

\* MemoryStorage.ListUsers and ListUsersByRole under the read lock: clones
\* of the users that pass, in the order the map is ranged over.
MemList(w) ==
  /\ h[w].pc = "list_body"
  /\ mu' = RUnlock(mu, w)
  /\ LET ids == {i \in DOMAIN users :
                   IF h[w].op = "ListUsers"
                   THEN Matches(users[i], h[w].req.filter)
                   ELSE users[i].role = h[w].req.role}
     IN \E order \in Orders(ids) :
          Step(w, AfterList(h[w], [k \in 1..Cardinality(ids) |->
                                     cloneUser(users[order[k]])]))
  /\ UNCHANGED <<chainVars, authVars, otelVars, pgVars, heap, users, updated>>

\* The send loop of the list handlers: stream.Send of the next user, and the
\* return after the last one; or the send fails and the handler returns
\* the error.
StreamSend(w) ==
  /\ h[w].pc = "stream"
  /\ \/ Step(w, IF h[w].nsent + 1 = Len(h[w].result)
                THEN Return([h[w] EXCEPT !.nsent = @ + 1], "OK", Nil)
                ELSE [h[w] EXCEPT !.nsent = @ + 1])
     \/ Step(w, Return(h[w], "Unavailable", Nil))
  /\ UNCHANGED <<chainVars, authVars, otelVars, pgVars, heap, users, mu, updated>>

InitStore == InitChain /\ enableAuth = FALSE

\* Concurrent handler calls: every worker makes call after call, on the
\* users of StoreUsers (two shapes under one id, and a second id) and with
\* update masks over the paths of StorePaths.
StoreUsers == {AdminUser(1), MemberUser(1), MemberUser(2)}

StoreIds == {1, 2}

StorePaths == {"role", "username", "id"}

NextStore ==
  \E w \in Workers :
    \/ AddUser(w, StoreUsers)
    \/ DeleteUser(w, StoreIds)
    \/ UpdateUser(w, StoreUsers)
    \/ UpdateUserPath(w, StorePaths)
    \/ BatchAddUsers(w)
    \/ SyncUsers(w)
    \/ Recv(w, StoreUsers, MaxItems)
    \/ Send(w)
    \/ Lock(w)
    \/ RLock(w)
    \/ MemCount(w)
    \/ MemAddCheck(w)
    \/ MemAddWrite(w)
    \/ MemGet(w)
    \/ MemUpdate(w)
    \/ MemDelete(w)
    \/ MemExists(w)

SpecStore == InitStore /\ [][NextStore]_vars

\* Handler calls one at a time: a single worker makes call after call.

NextSeq ==
  \/ AddUser("h1", ReqUsers)
  \/ GetUser("h1", 0..MaxId)
  \/ DeleteUser("h1", 0..MaxId)
  \/ UpdateUser("h1", ReqUsers)
  \/ UpdateUserPath("h1", MaskPaths)
  \/ Lock("h1")
  \/ RLock("h1")
  \/ MemCount("h1")
  \/ MemAddCheck("h1")
  \/ MemAddWrite("h1")
  \/ MemGet("h1")
  \/ MemUpdate("h1")
  \/ MemDelete("h1")

SpecSeq == InitStore /\ [][NextSeq]_vars

\* Streaming calls one at a time: a single worker makes call after call.
NextStream ==
  \/ AddUser("h1", ReqUsers)
  \/ DeleteUser("h1", 0..MaxId)
  \/ BatchAddUsers("h1")
  \/ SyncUsers("h1")
  \/ Recv("h1", ReqUsers, MaxBatch)
  \/ UserActivityStream("h1")
  \/ RecvActivity("h1", Activities, MaxBatch)
  \/ Send("h1")
  \/ ListUsers("h1", ListRequests)
  \/ ListUsersByRole("h1", ListRoles)
  \/ StreamSend("h1")
  \/ Lock("h1")
  \/ RLock("h1")
  \/ MemCount("h1")
  \/ MemAddCheck("h1")
  \/ MemAddWrite("h1")
  \/ MemGet("h1")
  \/ MemUpdate("h1")
  \/ MemDelete("h1")
  \/ MemExists("h1")
  \/ MemList("h1")

SpecStream == InitStore /\ [][NextStream]_vars

\* Every operation of MemoryStorage under two concurrent callers.
LockUsers == {AdminUser(1), MemberUser(1)}

NextLock ==
  \E w \in Workers :
    \/ AddUser(w, LockUsers)
    \/ GetUser(w, {1})
    \/ DeleteUser(w, {1})
    \/ UpdateUser(w, LockUsers)
    \/ UpdateUserPath(w, {"role"})
    \/ ListUsers(w, {NoFilter})
    \/ ListUsersByRole(w, {"ADMIN"})
    \/ StreamSend(w)
    \/ SyncUsers(w)
    \/ Recv(w, LockUsers, MaxItems)
    \/ Send(w)
    \/ Lock(w)
    \/ RLock(w)
    \/ MemCount(w)
    \/ MemAddCheck(w)
    \/ MemAddWrite(w)
    \/ MemGet(w)
    \/ MemUpdate(w)
    \/ MemDelete(w)
    \/ MemExists(w)
    \/ MemList(w)

SpecLock == InitStore /\ [][NextLock]_vars

\* Every handler that writes the store, and GetUser, called one at a time with
\* every id a request can carry (0 included).
IdUsers == {AdminUser(i) : i \in 0..MaxId} \cup {MemberUser(0), MemberUser(1)}

NextIds ==
  \/ AddUser("h1", IdUsers)
  \/ GetUser("h1", 0..MaxId)
  \/ DeleteUser("h1", 0..MaxId)
  \/ UpdateUser("h1", IdUsers)
  \/ UpdateUserPath("h1", {"role", "id"})
  \/ BatchAddUsers("h1")
  \/ SyncUsers("h1")
  \/ Recv("h1", IdUsers, MaxItems)
  \/ UserActivityStream("h1")
  \/ RecvActivity("h1", Activities, MaxItems)
  \/ Send("h1")
  \/ Lock("h1")
  \/ RLock("h1")
  \/ MemCount("h1")
  \/ MemAddCheck("h1")
  \/ MemAddWrite("h1")
  \/ MemGet("h1")
  \/ MemUpdate("h1")
  \/ MemDelete("h1")
  \/ MemExists("h1")

SpecIds == InitStore /\ [][NextIds]_vars

\* The two bidirectional handlers, one call at a time, over streams of at
\* most MaxItems messages.  A handler that can take a step takes one: the
\* client delivers its next message, ends the stream or breaks it, the
\* transport completes or fails a send, the lock is granted.
NextBidi ==
  \/ SyncUsers("h1")
  \/ Recv("h1", LockUsers \cup {AdminUser(0)}, MaxItems)
  \/ UserActivityStream("h1")
  \/ RecvActivity("h1", Activities, MaxItems)
  \/ Send("h1")
  \/ Lock("h1")
  \/ RLock("h1")
  \/ MemAddCheck("h1")
  \/ MemAddWrite("h1")
  \/ MemGet("h1")
  \/ MemUpdate("h1")
  \/ MemExists("h1")

SpecBidi == InitStore /\ [][NextBidi]_vars /\ WF_vars(NextBidi)

\* ------------------------------------------ two handlers writing one user
\* Two concurrent handler calls on user 1: an UpdateUser with the mask
\* {status} and a UserActivityStream receiving LOGIN events for the user.
RaceLogin == [userId |-> 1, activityType |-> "LOGIN", timestamp |-> Timestamp(1)]

NextRace ==
  \E w \in Workers :
    \/ AddUser(w, {AdminUser(1)})
    \/ UpdateUser(w, {MemberUser(1)})
    \/ UpdateUserPath(w, {"status"})
    \/ UserActivityStream(w)
    \/ RecvActivity(w, {RaceLogin}, MaxItems)
    \/ Send(w)
    \/ Lock(w)
    \/ RLock(w)
    \/ MemCount(w)
    \/ MemAddCheck(w)
    \/ MemAddWrite(w)
    \/ MemGet(w)
    \/ MemUpdate(w)
    \/ MemExists(w)

SpecRace == InitStore /\ [][NextRace]_vars

\* ------------------------------------------- server/postgres.go, and the two
\* backends side by side
\* The row PostgresStorage.AddUser binds to its INSERT: the columns of the
\* users table (a nil profile gives empty columns, a nil create date the epoch).
ToRow(user) ==
  [id |-> user.id, username |-> user.username, role |-> user.role,
   email |-> user.email, phone |-> user.phone,
   displayName |-> IF user.profile = Nil THEN "" ELSE user.profile.displayName,
   bio |-> IF user.profile = Nil THEN "" ELSE user.profile.bio,
   avatarUrl |-> IF user.profile = Nil THEN "" ELSE user.profile.avatarUrl,
   dateOfBirth |-> IF user.profile = Nil THEN Nil ELSE user.profile.dateOfBirth,
   preferences |-> IF user.profile = Nil THEN {} ELSE user.profile.preferences,
   tags |-> user.tags, metadata |-> user.metadata, status |-> user.status,
   createDate |-> Timestamp(AsTime(user.createDate)),
   lastLogin |-> user.lastLogin, addresses |-> user.addresses]

\* username VARCHAR(255) NOT NULL UNIQUE: another row has the username.
UsernameTaken(t, id, username) ==
  \E j \in DOMAIN t \ {id} : t[j].username = username

\* PostgresStorage.AddUser: INSERT ... ON CONFLICT (id) DO UPDATE SET every
\* column but id and create_date; an error of the statement is wrapped with
\* fmt.Errorf (no gRPC status: Unknown).
PostgresAddUser(t, user) ==
  IF UsernameTaken(t, user.id, user.username)
  THEN [rows |-> t, err |-> "Unknown"]
  ELSE IF user.id \in DOMAIN t
  THEN [rows |-> Put(t, user.id, [ToRow(user) EXCEPT
                                    !.createDate = t[user.id].createDate]),
        err |-> "nil"]
  ELSE [rows |-> Put(t, user.id, ToRow(user)), err |-> "nil"]

\* PostgresStorage.DeleteUser: DELETE ... WHERE id; no row affected is an
\* error made with fmt.Errorf.
PostgresDeleteUser(t, id) ==
  IF id \notin DOMAIN t THEN [rows |-> t, err |-> "Unknown"]
  ELSE [rows |-> Remove(t, id), err |-> "nil"]

\* MemoryStorage.AddUser and DeleteUser as whole calls (each runs under
\* m.mu.Lock()).
MemoryAddUser(m, user, now) ==
  IF user.id \in DOMAIN m THEN [users |-> m, err |-> "AlreadyExists"]
  ELSE [users |-> Put(m, user.id, cloneUser(WithDefaults(user, now))),
        err |-> "nil"]

MemoryDeleteUser(m, id) ==
  IF id \notin DOMAIN m THEN [users |-> m, err |-> "NotFound"]
  ELSE [users |-> Remove(m, id), err |-> "nil"]

\* PostgresStorage.UserExists: SELECT EXISTS(... WHERE id).
PostgresUserExists(t, id) == id \in DOMAIN t

\* The UPDATE users SET ... WHERE id statement of PostgresStorage.UpdateUser:
\* every column but id and create_date; a taken username fails the
\* statement, an id without a row changes nothing and is no error.
PostgresExecUpdate(t, user) ==
  IF user.id \notin DOMAIN t THEN [rows |-> t, err |-> "nil"]
  ELSE IF UsernameTaken(t, user.id, user.username)
  THEN [rows |-> t, err |-> "failed to update user"]
  ELSE [rows |-> Put(t, user.id, [ToRow(user) EXCEPT
                                    !.createDate = t[user.id].createDate]),
        err |-> "nil"]

\* The users given to both backends.
BackendUsers ==
  {AdminUser(1), MemberUser(1), MemberUser(2),
   [AdminUser(2) EXCEPT !.username = "root"]}

\* Storage.AddUser(ctx, user) on a MemoryStorage and on a PostgresStorage.
BothAddUser(U) ==
  \E user \in U :
    LET m == MemoryAddUser(users, user, clock)
        p == PostgresAddUser(rows, user)
    IN /\ users' = m.users
       /\ rows' = p.rows
       /\ last' = [op |-> "AddUser", id |-> user.id, mem |-> m.err, pg |-> p.err]
       /\ UNCHANGED <<chainVars, authVars, otelVars, mu, h, updated, heap>>

\* Storage.DeleteUser(ctx, id) on both.
BothDeleteUser(I) ==
  \E id \in I :
    LET m == MemoryDeleteUser(users, id)
        p == PostgresDeleteUser(rows, id)
    IN /\ users' = m.users
       /\ rows' = p.rows
       /\ last' = [op |-> "DeleteUser", id |-> id, mem |-> m.err, pg |-> p.err]
       /\ UNCHANGED <<chainVars, authVars, otelVars, mu, h, updated, heap>>

NextBackends ==
  \/ BothAddUser(BackendUsers)
  \/ BothDeleteUser(1..MaxId)

SpecBackends == InitStore /\ [][NextBackends]_vars

\* ------------------------------------------ the two lists of MemoryStorage
\* MemoryStorage.ListUsers and ListUsersByRole called on the store directly,
\* each as one step (it runs under m.mu.RLock()), with the store filled by
\* MemoryStorage.AddUser.  The result is in the order the map was ranged over.
StorageFilters ==
  {Nil} \cup
  {[createdSince |-> cs, olderThan |-> ot, status |-> st,
    pageSize |-> 0, pageToken |-> ""] :
     cs \in {Nil, [unix |-> 0]},
     ot \in {Nil, [unix |-> 0], [unix |-> 1]},
     st \in {Nil, [is |-> "ACTIVE"], [is |-> "SUSPENDED"]}}

StorageAddUser(U) ==
  /\ \E user \in U : users' = MemoryAddUser(users, user, clock).users
  /\ last' = Nil
  /\ UNCHANGED <<chainVars, authVars, otelVars, rows, mu, h, updated, heap>>

StorageListUsers(F) ==
  /\ \E filter \in F :
       LET ids == {i \in DOMAIN users : Matches(users[i], filter)} IN
         \E order \in Orders(ids) :
           last' = [op |-> "ListUsers", filter |-> filter, err |-> "nil",
                    result |-> [k \in 1..Cardinality(ids) |->
                                  cloneUser(users[order[k]])]]
  /\ UNCHANGED <<chainVars, authVars, otelVars, rows, storeVars>>

StorageListUsersByRole(Rs) ==
  /\ \E role \in Rs :
       LET ids == {i \in DOMAIN users : users[i].role = role} IN
         \E order \in Orders(ids) :
           last' = [op |-> "ListUsersByRole", role |-> role, err |-> "nil",
                    result |-> [k \in 1..Cardinality(ids) |->
                                  cloneUser(users[order[k]])]]
  /\ UNCHANGED <<chainVars, authVars, otelVars, rows, storeVars>>

NextList ==
  \/ StorageAddUser(BackendUsers)
  \/ StorageListUsers(StorageFilters)
  \/ StorageListUsersByRole(ListRoles)

SpecList == InitStore /\ [][NextList]_vars

\* ------------------------------ PostgresStorage under two concurrent callers
\* The users table is created empty; each statement is one step of the
\* database, and a call of several statements is several steps.
\* PostgresStorage.AddUser and DeleteUser are one statement each.
PgAddUser(w, U) ==
  /\ h[w].pc = "idle"
  /\ \E user \in U :
       LET p == PostgresAddUser(rows, user) IN
         /\ rows' = p.rows
         /\ Step(w, Return([Call("PgAddUser") EXCEPT !.id = user.id], p.err, Nil))
  /\ UNCHANGED <<chainVars, authVars, otelVars, last, heap, users, mu, updated>>

PgDeleteUser(w, I) ==
  /\ h[w].pc = "idle"
  /\ \E id \in I :
       LET p == PostgresDeleteUser(rows, id) IN
         /\ rows' = p.rows
         /\ Step(w, Return([Call("PgDeleteUser") EXCEPT !.id = id], p.err, Nil))
  /\ UNCHANGED <<chainVars, authVars, otelVars, last, heap, users, mu, updated>>

\* PostgresStorage.UpdateUser is called with a user.
PgUpdateUser(w, U) ==
  /\ h[w].pc = "idle"
  /\ \E user \in U :
       Step(w, [Call("PgUpdateUser") EXCEPT !.user = user, !.id = user.id,
                                            !.pc = "pg_exists"])
  /\ UNCHANGED <<chainVars, authVars, otelVars, pgVars, heap, users, mu, updated>>

\* Its s.UserExists query, and the return when no row has the id.
PgUpdateExists(w) ==
  /\ h[w].pc = "pg_exists"
  /\ IF PostgresUserExists(rows, h[w].id)
     THEN Step(w, [h[w] EXCEPT !.pc = "pg_exec"])
     ELSE Step(w, Return(h[w], "not found", Nil))
  /\ UNCHANGED <<chainVars, authVars, otelVars, pgVars, heap, users, mu, updated>>

\* Its s.pool.Exec of the UPDATE statement: only the statement's error is
\* looked at.
PgUpdateExec(w) ==
  /\ h[w].pc = "pg_exec"
  /\ LET p == PostgresExecUpdate(rows, h[w].user) IN
       /\ rows' = p.rows
       /\ Step(w, Return(h[w], p.err, Nil))
  /\ UNCHANGED <<chainVars, authVars, otelVars, last, heap, users, mu, updated>>

NextPg ==
  \E w \in Workers :
    \/ PgAddUser(w, BackendUsers)
    \/ PgDeleteUser(w, 1..MaxId)
    \/ PgUpdateUser(w, BackendUsers)
    \/ PgUpdateExists(w)
    \/ PgUpdateExec(w)

SpecPg == InitStore /\ [][NextPg]_vars

\* ----------------------------------------------- callers and shared objects
\* The users of callers that keep pointers to their timestamps.
AliasUsers ==
  {[AdminUser(1) EXCEPT !.createDate = Ref("t1"),
                        !.profile.dateOfBirth = Ref("t2")],
   [MemberUser(1) EXCEPT !.lastLogin = Ref("t2")]}

\* The timestamps a user points to, and the heap objects among them.
TimestampsOf(user) ==
  {user.createDate, user.lastLogin}
    \cup (IF user.profile = Nil THEN {} ELSE {user.profile.dateOfBirth})

ObjectsOf(user) ==
  {a \in Objects : \E t \in TimestampsOf(user) : t = Ref(a)}

\* The heap objects the caller of a returned call holds: through the user
\* it passed in and through the user it got back.
HeldObjects(f) ==
  (IF f.user = Nil THEN {} ELSE ObjectsOf(f.user))
    \cup (IF "id" \in DOMAIN f.val THEN ObjectsOf(f.val) ELSE {})

\* The caller of a returned call changes an object it holds: a timestamp
\* behind a pointer, or the tags of the user it passed in.
CallerMutates(w) ==
  /\ h[w].pc = "idle"
  /\ h[w].code # "none"
  /\ \/ /\ \E a \in HeldObjects(h[w]) :
             /\ heap[a].seconds < MaxClock
             /\ heap' = [heap EXCEPT ![a] = Timestamp(@.seconds + 1)]
        /\ UNCHANGED h
     \/ /\ h[w].user # Nil
        /\ h[w].user.tags # <<"changed">>
        /\ h' = [h EXCEPT ![w].user.tags = <<"changed">>]
        /\ UNCHANGED heap
  /\ UNCHANGED <<chainVars, authVars, otelVars, pgVars, users, mu, updated>>

\* What a reader sees of a user: its fields, the pointers followed.
Deref(t, hp) ==
  IF t = Nil THEN Nil ELSE IF "ref" \in DOMAIN t THEN hp[t.ref] ELSE t

Seen(user, hp) ==
  [user EXCEPT !.createDate = Deref(@, hp),
               !.lastLogin = Deref(@, hp),
               !.profile = IF @ = Nil THEN Nil
                           ELSE [@ EXCEPT !.dateOfBirth = Deref(@, hp)]]

\* Calls one at a time by a caller that keeps what it passed in and what it
\* got back, and changes it between calls.
NextAlias ==
  \/ AddUser("h1", AliasUsers)
  \/ GetUser("h1", {1})
  \/ UpdateUser("h1", AliasUsers)
  \/ UpdateUserPath("h1", {"last_login", "tags"})
  \/ CallerMutates("h1")
  \/ Lock("h1")
  \/ RLock("h1")
  \/ MemCount("h1")
  \/ MemAddCheck("h1")
  \/ MemAddWrite("h1")
  \/ MemGet("h1")
  \/ MemUpdate("h1")

SpecAlias == InitStore /\ [][NextAlias]_vars

\* ===================================================== the chain's properties
\* Number of occurrences of an event in a call's trace.
Count(seq, e) == Cardinality({i \in 1..Len(seq) : seq[i] = e})
\* Position of the first occurrence of an event in a trace (0 if absent).
IndexOf(seq, e) ==
  IF \E i \in 1..Len(seq) : seq[i] = e
  THEN CHOOSE i \in 1..Len(seq) : seq[i] = e /\ \A j \in 1..(i - 1) : seq[j] # e
  ELSE 0
\* The call has entered the chain / the JWT interceptor has run validateJWT.
Entered(c) == call[c] # Nil
Validated(c) == vres[c] # Nil
\* The bearer token the call carries.
TokenOf(c) == call[c].cred.auth[1].rest
\* The token does not validate at time t: it is no JWT, its signature is not
\* the manager's signature of its payload, or it has expired.
FailsValidation(tok, t) ==
  \/ tok.raw # "jwt"
  \/ tok.sig # Sign(Manager.secretKey, "HS256", tok.claims)
  \/ t >= tok.claims.exp
\* The JWT interceptor has returned to the stage above it, or called the handler.
PastAuth(c) == Validated(c) /\ ~(StageOf(c) = "auth")

\* C1: with the JWT interceptor in the chain, a call (unary or stream, any
\* method) whose bearer token fails validation -- tampered, malformed, signed
\* with another key or expired -- is answered Unauthenticated; ValidMethod is
\* never consulted and the handler is never invoked for it.
C1_AuthShortCircuit ==
  \A c \in Calls :
    (enableAuth /\ Validated(c) /\ FailsValidation(TokenOf(c), vtime[c]))
      => /\ cerr[c] = "Unauthenticated"
         /\ Count(trace[c], "handler") = 0
         /\ Count(trace[c], "authz_ok") + Count(trace[c], "authz_fail") = 0
         /\ seen[c] = Nil

\* A tampered token went through the unary chain and an expired one through
\* the stream chain, both to completion.
C1_Witness ==
  \E c, d \in Calls :
    /\ enableAuth /\ cpc[c] = Done /\ cpc[d] = Done
    /\ call[c].kind = "unary" /\ TokenOf(c) = TokTampered
    /\ call[d].kind = "stream" /\ TokenOf(d) = TokJohn
    /\ vtime[d] >= TokJohn.claims.exp

\* C2: when the token validates but ValidMethod returns an error, the unary
\* and the stream interceptor return PermissionDenied, put no claims into the
\* context and never invoke the handler.
C2_PermissionDenied ==
  \A c \in Calls :
    (/\ enableAuth /\ PastAuth(c) /\ vres[c].code = "OK"
     /\ ValidMethod(call[c].method, vres[c].claims) # "nil")
      => /\ cerr[c] = "PermissionDenied"
         /\ Count(trace[c], "handler") = 0
         /\ Count(trace[c], "attach") = 0
         /\ GetClaimsFromContext(HandlerContext(c)) = Nil
         /\ seen[c] = Nil

\* A unary call refused for ErrNoPermission and a stream call refused for
\* ErrInvalidClaims have both completed.
C2_Witness ==
  \E c, d \in Calls :
    /\ cpc[c] = Done /\ cpc[d] = Done
    /\ call[c].kind = "unary" /\ call[d].kind = "stream"
    /\ Validated(c) /\ vres[c].code = "OK" /\ Validated(d) /\ vres[d].code = "OK"
    /\ ValidMethod(call[c].method, vres[c].claims) = "ErrNoPermission"
    /\ ValidMethod(call[d].method, vres[d].claims) = "ErrInvalidClaims"
    /\ cerr[c] = "PermissionDenied" /\ cerr[d] = "PermissionDenied"

\* The inner stages of the call have returned to the metrics interceptor and
\* it has finished.
MetricsPassed(c) ==
  /\ Entered(c) /\ cpc[c].ph = "up"
  /\ \A i \in 1..Len(Chain) : Chain[i] = "metrics" => cpc[c].at < i

\* C3: with the chain logging -> metrics -> auth -> handler, each call whose
\* inner stages returned is recorded exactly once by the metrics stage
\* (totalRequests and its method's count each count it once), totalErrors
\* counts exactly the calls whose outcome is an error, and a call rejected
\* before the handler is one of them.
C3_MetricsAccounting ==
  /\ metrics.totalRequests = Cardinality({c \in Calls : MetricsPassed(c)})
  /\ \A m \in Methods :
       metrics.methodCounts[m] =
         Cardinality({c \in Calls : MetricsPassed(c) /\ call[c].method = m})
  /\ metrics.totalErrors =
       Cardinality({c \in Calls : MetricsPassed(c) /\ cerr[c] # "OK"})
  /\ \A c \in Calls :
       /\ Count(trace[c], "metrics_rec") = IF MetricsPassed(c) THEN 1 ELSE 0
       /\ cpc[c] = Done => MetricsPassed(c)
       /\ (MetricsPassed(c) /\ Count(trace[c], "handler") = 0) => cerr[c] # "OK"

\* Both calls are finished: one was rejected by the JWT interceptor, the
\* other's handler returned a cancellation error.
C3_Witness ==
  \E c, d \in Calls :
    /\ enableAuth /\ cpc[c] = Done /\ cpc[d] = Done
    /\ cerr[c] = "Unauthenticated" /\ cerr[d] = "Canceled"
    /\ metrics.totalRequests = 2 /\ metrics.totalErrors = 2

\* The order of the stage events of a call that runs to completion: with
\* auth in the chain and the call accepted, with auth and the call rejected
\* at authentication or at authorization, and without auth.
OrderAccepted ==
  <<"log_start", "metrics_start", "authn_ok", "authz_ok", "attach", "handler",
    "metrics_rec", "log_end">>
OrderUnauthenticated ==
  <<"log_start", "metrics_start", "authn_fail", "metrics_rec", "log_end">>
OrderDenied ==
  <<"log_start", "metrics_start", "authn_ok", "authz_fail", "metrics_rec", "log_end">>
OrderNoAuth ==
  <<"log_start", "metrics_start", "handler", "metrics_rec", "log_end">>
IsPrefix(s, t) == Len(s) <= Len(t) /\ \A i \in 1..Len(s) : s[i] = t[i]
\* A trace with the events of the auth stage removed.
WithoutAuth(s) ==
  SelectSeq(s, LAMBDA e : e \notin {"authn_ok", "authn_fail", "authz_ok",
                                    "authz_fail", "attach"})

\* C4: the stage events of every call occur in the fixed order logging-start,
\* metrics-start, (authentication, authorization: only with auth enabled),
\* handler, metrics-record, logging-end; the handler never runs before
\* authorization succeeded, authentication never runs before logging-start
\* and metrics-start, and a finished call's trace with auth enabled differs
\* from the trace without auth only by the auth stage's events.
C4_StageOrder ==
  \A c \in Calls :
    /\ IF enableAuth
       THEN \/ IsPrefix(trace[c], OrderAccepted)
            \/ IsPrefix(trace[c], OrderUnauthenticated)
            \/ IsPrefix(trace[c], OrderDenied)
       ELSE IsPrefix(trace[c], OrderNoAuth)
    /\ cpc[c] = Done =>
         trace[c] \in {OrderAccepted, OrderUnauthenticated, OrderDenied, OrderNoAuth}
    /\ (cpc[c] = Done /\ Count(trace[c], "handler") = 1) =>
         WithoutAuth(trace[c]) = OrderNoAuth

\* With auth enabled, one call has run the whole accepted order and another
\* the order of a call denied at authorization.
C4_Witness ==
  \E c, d \in Calls :
    /\ c # d /\ enableAuth /\ cpc[c] = Done /\ cpc[d] = Done
    /\ trace[c] = OrderAccepted /\ trace[d] = OrderDenied

\* The handler of the call is about to be invoked or has been invoked.
AtHandler(c) == Entered(c) /\ StageOf(c) = "handler"
HandlerRan(c) == Count(trace[c], "handler") > 0

\* C5: whenever the handler is invoked through the JWT interceptor, the
\* context it is given (for a stream: the one the stream's Context() returns)
\* carries exactly the claims this call's validateJWT returned, not nil; they
\* were attached once, after validation and approval both succeeded.
C5_ClaimsInHandlerContext ==
  \A c \in Calls :
    /\ (enableAuth /\ AtHandler(c)) =>
         /\ GetClaimsFromContext(HandlerContext(c)) = vres[c].claims
         /\ vres[c].claims # Nil
    /\ (enableAuth /\ HandlerRan(c)) =>
         /\ seen[c] = vres[c].claims /\ seen[c] # Nil
         /\ Count(trace[c], "attach") = 1
         /\ 0 < IndexOf(trace[c], "authn_ok")
         /\ IndexOf(trace[c], "authn_ok") < IndexOf(trace[c], "authz_ok")
         /\ IndexOf(trace[c], "authz_ok") < IndexOf(trace[c], "attach")
         /\ IndexOf(trace[c], "attach") < IndexOf(trace[c], "handler")
    /\ (enableAuth /\ Count(trace[c], "authz_ok") = 0) =>
         (Entered(c) => GetClaimsFromContext(HandlerContext(c)) = Nil)

\* A stream handler and a unary handler have both read their claims.
C5_Witness ==
  \E c, d \in Calls :
    /\ enableAuth /\ HandlerRan(c) /\ HandlerRan(d)
    /\ call[c].kind = "stream" /\ call[d].kind = "unary"
    /\ seen[c] = TokJohn.claims /\ seen[d] = TokHello.claims

\* C6: under any interleaving of calls carrying different tokens, the claims
\* a handler finds in its context are the payload of its own call's token:
\* each call validated its own token, once, and no other call's result.
C6_ClaimsCallScoped ==
  \A c \in Calls :
    /\ (enableAuth /\ AtHandler(c)) =>
         GetClaimsFromContext(HandlerContext(c)) = TokenOf(c).claims
    /\ (enableAuth /\ HandlerRan(c)) =>
         /\ seen[c] = TokenOf(c).claims
         /\ Count(trace[c], "authn_ok") = 1
    /\ (enableAuth /\ Validated(c) /\ vres[c].code = "OK") =>
         vres[c].claims = TokenOf(c).claims

\* Two calls with different tokens are in flight at once, both about to run
\* their handler, each with its own claims in its context.
C6_Witness ==
  \E c, d \in Calls :
    /\ enableAuth /\ AtHandler(c) /\ AtHandler(d)
    /\ TokenOf(c) = TokJohn /\ TokenOf(d) = TokMud
    /\ GetClaimsFromContext(HandlerContext(c)) = TokJohn.claims
    /\ GetClaimsFromContext(HandlerContext(d)) = TokMud.claims

\* ----------------------------------------------------- the store: properties
\* A call of op has returned on worker w.
Returned(w, op) == h[w].pc = "idle" /\ h[w].op = op /\ h[w].code # "none"

\* Worker w takes the step that leaves pc.
Leaves(w, pc) == h[w].pc = pc /\ h'[w].pc # pc

\* The caller of MemoryStorage.AddUser saw it fail with err, or succeed.
AddFailed(w, err) ==
  CASE h[w].op = "AddUser" -> h'[w].code = err
    [] h[w].op = "BatchAddUsers" ->
         /\ h'[w].failed = h[w].failed + 1
         /\ h'[w].added = h[w].added
         /\ h'[w].errors = Append(h[w].errors, ItemError(h[w].received, err))
    [] h[w].op = "SyncUsers" ->
         h'[w].val.status = "FAILED" /\ h'[w].val.errorMessage = err

AddSucceeded(w) ==
  CASE h[w].op = "AddUser" -> h'[w].code = "OK"
    [] h[w].op = "BatchAddUsers" ->
         h'[w].added = h[w].added + 1 /\ h'[w].failed = h[w].failed
    [] h[w].op = "SyncUsers" -> h'[w].val.status = "SUCCESS"

\* C7: MemoryStorage.AddUser with an id that is already stored fails with
\* AlreadyExists and leaves the store as it was (the stored user keeps every
\* field value, the id stays stored once); a call that got past the
\* existence check adds an id that is not stored, so that of concurrent
\* calls with one id exactly one succeeds: the one that writes succeeds and
\* makes the id stored, and every other one then fails.
C7_AddExisting ==
  /\ [](\A w \in Workers :
          h[w].pc = "add_write" => h[w].user.id \notin DOMAIN users)
  /\ [][\A w \in Workers :
          /\ (Leaves(w, "add_check") /\ h[w].user.id \in DOMAIN users)
               => (users' = users /\ AddFailed(w, "AlreadyExists"))
          /\ (Leaves(w, "add_check") /\ h[w].user.id \notin DOMAIN users)
               => (users' = users /\ h'[w].pc = "add_write")
          /\ Leaves(w, "add_write")
               => /\ AddSucceeded(w)
                  /\ DOMAIN users' = DOMAIN users \cup {h[w].user.id}
                  /\ users'[h[w].user.id].id = h[w].user.id
                  /\ \A i \in DOMAIN users :
                       i # h[w].user.id => users'[i] = users[i]]_vars

\* Two AddUser calls named the same id with different users: one succeeded,
\* the other failed with AlreadyExists, and the store holds the first one's.
C7_Witness ==
  \E w, v \in Workers :
    /\ w # v
    /\ Returned(w, "AddUser") /\ h[w].code = "OK"
    /\ Returned(v, "AddUser") /\ h[v].code = "AlreadyExists"
    /\ h[w].user.id = h[v].user.id
    /\ h[w].user.role # h[v].user.role
    /\ h[w].user.id \in DOMAIN users
    /\ users[h[w].user.id].role = h[w].user.role

\* C8: the AddUser handler that counted 0 users and was given a role other
\* than ADMIN fails with InvalidArgument and the store is empty; given role
\* ADMIN, an id above 0 and a username it succeeds and the store holds that
\* user; a later add of a non-admin user (id above 0, username set) succeeds
\* unless its id is stored.
C8_BootstrapAdmin ==
  LET f == h["h1"]
      valid == f.user.id > 0 /\ f.user.username # ""
  IN Returned("h1", "AddUser") =>
       /\ (f.count = 0 /\ f.user.role # "ADMIN")
            => (f.code = "InvalidArgument" /\ DOMAIN users = {})
       /\ (f.count = 0 /\ f.user.role = "ADMIN" /\ valid)
            => /\ f.code = "OK"
               /\ DOMAIN users = {f.user.id}
               /\ users[f.user.id].role = "ADMIN"
       /\ (f.count > 0 /\ f.user.role # "ADMIN" /\ valid)
            => \/ /\ f.code = "OK"
                  /\ Cardinality(DOMAIN users) = f.count + 1
                  /\ f.user.id \in DOMAIN users
                  /\ users[f.user.id].role = f.user.role
               \/ /\ f.code = "AlreadyExists"
                  /\ Cardinality(DOMAIN users) = f.count
                  /\ f.user.id \in DOMAIN users

\* An administrator was added to the empty store and then a member was.
C8_Witness ==
  /\ Returned("h1", "AddUser")
  /\ h["h1"].count = 1
  /\ h["h1"].user.role = "MEMBER"
  /\ h["h1"].code = "OK"
  /\ \E i \in DOMAIN users : users[i].role = "ADMIN"
  /\ \E i \in DOMAIN users : users[i].role = "MEMBER"

\* C9: whatever the handlers do and however they interleave, the step that
\* puts a user into the empty store puts a user with role ADMIN.
C9_FirstUserAdmin ==
  [][(DOMAIN users = {} /\ DOMAIN users' # {})
       => \A i \in DOMAIN users' : users'[i].role = "ADMIN"]_vars

\* The record field an update-mask path names.
FieldOf(path) == IF path = "last_login" THEN "lastLogin" ELSE path

MaskedFields(mask) == {FieldOf(mask[i]) : i \in 1..Len(mask)}

\* C10: UpdateUser with a non-empty mask stores the user it read with the
\* fields the mask names taken from the request and every other field,
\* id and createDate among them, as it was stored; it returns that user,
\* and GetUser returns the stored user.
C10_MaskIsolation ==
  /\ [][LET f == h["h1"] IN
          (Leaves("h1", "upd_body") /\ f.op = "UpdateUser" /\ f.mask # <<>>)
            => /\ f.user.id \in DOMAIN users
               /\ h'["h1"].code = "OK"
               /\ DOMAIN users' = DOMAIN users
               /\ \A i \in DOMAIN users : i # f.user.id => users'[i] = users[i]
               /\ \A field \in DOMAIN users[f.user.id] :
                    users'[f.user.id][field] =
                      IF field \in MaskedFields(f.mask)
                      THEN f.user[field] ELSE users[f.user.id][field]
               /\ h'["h1"].val = users'[f.user.id]]_vars
  /\ [](Returned("h1", "GetUser") /\ h["h1"].code = "OK"
          => h["h1"].id \in DOMAIN users /\ h["h1"].val = users[h["h1"].id])
  /\ [](Returned("h1", "UpdateUser") /\ h["h1"].code = "OK"
          => h["h1"].val = users[h["h1"].user.id])

\* A stored administrator was updated from a member under the mask
\* {username, status}: the store holds the two fields of the request and
\* the other fields as they were.
C10_Witness ==
  /\ Returned("h1", "UpdateUser")
  /\ h["h1"].code = "OK"
  /\ h["h1"].mask = <<"username", "status">>
  /\ h["h1"].user.role = "MEMBER"
  /\ users[h["h1"].user.id].username = "user1"
  /\ users[h["h1"].user.id].status = "SUSPENDED"
  /\ users[h["h1"].user.id].role = "ADMIN"
  /\ users[h["h1"].user.id].email = "admin@example.com"

\* The mask paths UpdateUser has a case for.
Vocabulary == {KnownPaths[i] : i \in 1..Len(KnownPaths)}

\* C11: an UpdateUser call that read "id" or a path outside the vocabulary
\* in its mask has returned InvalidArgument, also when valid paths came
\* first, and no step of the call up to there changed the store: the
\* stored user is as it was.
C11_InvalidMaskRejected ==
  /\ [](LET f == h["h1"] IN
          (f.op = "UpdateUser" /\ \E i \in 1..Len(f.mask) : f.mask[i] \notin Vocabulary)
            => (f.pc = "idle" /\ f.code = "InvalidArgument"))
  /\ [][LET f == h["h1"] IN
          (f.op = "UpdateUser" /\ f.pc \in {"get_lock", "get_body", "mask"})
            => users' = users]_vars

\* An update of a stored administrator from a member with the mask
\* {username, create_date} was rejected, and the stored username is the old
\* one.
C11_Witness ==
  /\ Returned("h1", "UpdateUser")
  /\ h["h1"].code = "InvalidArgument"
  /\ h["h1"].mask = <<"username", "create_date">>
  /\ h["h1"].user.username = "user1"
  /\ h["h1"].user.id \in DOMAIN users
  /\ users[h["h1"].user.id].username = "admin"

\* C12: UpdateUser without mask paths stores the user it read with every
\* mutable field taken from the request and with the stored id and
\* createDate, and returns that user.
C12_FullReplace ==
  [][LET f == h["h1"] IN
       (Leaves("h1", "upd_body") /\ f.op = "UpdateUser" /\ f.mask = <<>>)
         => /\ f.user.id \in DOMAIN users
            /\ h'["h1"].code = "OK"
            /\ DOMAIN users' = DOMAIN users
            /\ \A field \in DOMAIN users[f.user.id] :
                 users'[f.user.id][field] =
                   IF field \in {"id", "createDate"}
                   THEN users[f.user.id][field] ELSE f.user[field]
            /\ {FieldOf(p) : p \in Vocabulary} \cup {"id", "createDate"}
                 = DOMAIN users[f.user.id]
            /\ h'["h1"].val = users'[f.user.id]]_vars

\* A stored administrator was replaced by a member without a mask: the
\* store holds the member's fields under the administrator's create date.
C12_Witness ==
  /\ Returned("h1", "UpdateUser")
  /\ h["h1"].code = "OK"
  /\ h["h1"].mask = <<>>
  /\ h["h1"].user.role = "MEMBER"
  /\ users[h["h1"].user.id].role = "MEMBER"
  /\ users[h["h1"].user.id].status = "SUSPENDED"
  /\ users[h["h1"].user.id].addresses = h["h1"].user.addresses
  /\ users[h["h1"].user.id].createDate = Timestamp(0)
  /\ h["h1"].user.createDate = Timestamp(-1)

\* C13: MemoryStorage.AddUser of a user whose id is not stored stores a
\* user equal to it in every field, but for a create date assigned when it
\* had none and the status ACTIVE when it had INACTIVE; GetUser returns the
\* stored user and leaves the store as it is, so that a second GetUser
\* returns the same.
C13_RoundTrip ==
  /\ [][LET u == h["h1"].user IN
          Leaves("h1", "add_write")
            => /\ u.id \notin DOMAIN users
               /\ u.id \in DOMAIN users'
               /\ \A field \in DOMAIN u \ {"createDate", "status"} :
                    users'[u.id][field] = u[field]
               /\ DOMAIN users'[u.id] = DOMAIN u
               /\ users'[u.id].createDate =
                    IF u.createDate = Nil THEN Timestamp(clock) ELSE u.createDate
               /\ users'[u.id].status =
                    IF u.status = "INACTIVE" THEN "ACTIVE" ELSE u.status]_vars
  /\ [][LET f == h["h1"] IN
          (Leaves("h1", "get_body") /\ f.op = "GetUser")
            => /\ users' = users
               /\ IF f.id \in DOMAIN users
                  THEN h'["h1"].code = "OK" /\ h'["h1"].val = users[f.id]
                  ELSE h'["h1"].code = "NotFound"]_vars

\* GetUser returned the administrator that was added without create date
\* and status: every field as sent, the two defaults set.
C13_Witness ==
  /\ Returned("h1", "GetUser")
  /\ h["h1"].code = "OK"
  /\ h["h1"].val = [AdminUser(h["h1"].id) EXCEPT !.createDate = Timestamp(0),
                                                !.status = "ACTIVE"]

\* A caller changes an object it holds.
CallerStep ==
  \E w \in Workers :
    /\ h[w].pc = "idle" /\ h'[w].pc = "idle"
    /\ heap' # heap \/ h'[w].user # h[w].user

\* C14: a caller changing any part of an object it passed to or got from
\* the store does not change what GetUser returns afterwards: every stored
\* user reads the same after the change as before.
C14_NoSharing ==
  [][CallerStep =>
       /\ DOMAIN users' = DOMAIN users
       /\ \A id \in DOMAIN users :
            Seen(cloneUser(users'[id]), heap') = Seen(cloneUser(users[id]), heap)]_vars

\* The ids MemoryStorage enumerates for the list call in frame f.
Enumerated(f) ==
  {i \in DOMAIN users :
     IF f.op = "ListUsers" THEN Matches(users[i], f.req.filter)
     ELSE users[i].role = f.req.role}

\* C16: in ListUsers and ListUsersByRole an enumeration of zero users is
\* answered NotFound with nothing sent; otherwise the handler holds each
\* enumerated user exactly once, every send is of the next one of them, and
\* it returns OK only with the send of the last one (a failing send returns
\* the error of the transport instead).
C16_ListSends ==
  /\ [][Leaves("h1", "list_body") =>
          IF Enumerated(h["h1"]) = {}
          THEN /\ h'["h1"].pc = "idle"
               /\ h'["h1"].code = "NotFound"
               /\ h'["h1"].nsent = 0
          ELSE /\ h'["h1"].pc = "stream"
               /\ h'["h1"].nsent = 0
               /\ Len(h'["h1"].result) = Cardinality(Enumerated(h["h1"]))
               /\ {h'["h1"].result[k].id : k \in DOMAIN h'["h1"].result}
                    = Enumerated(h["h1"])
               /\ \A k \in DOMAIN h'["h1"].result :
                    h'["h1"].result[k] = users[h'["h1"].result[k].id]]_vars
  /\ [][(h["h1"].pc = "stream" /\ h'["h1"] # h["h1"]) =>
          \/ /\ h'["h1"].nsent = h["h1"].nsent + 1
             /\ IF h'["h1"].nsent = Len(h["h1"].result)
                THEN h'["h1"].pc = "idle" /\ h'["h1"].code = "OK"
                ELSE h'["h1"].pc = "stream"
                     /\ h'["h1"].result = h["h1"].result
          \/ /\ h'["h1"].nsent = h["h1"].nsent
             /\ h'["h1"].pc = "idle"
             /\ h'["h1"].code = "Unavailable"]_vars
  /\ [](\A op \in {"ListUsers", "ListUsersByRole"} :
          Returned("h1", op) =>
            /\ h["h1"].code \in {"OK", "NotFound", "Unavailable"}
            /\ h["h1"].code = "OK" => h["h1"].nsent >= 1
            /\ h["h1"].code = "NotFound" => h["h1"].nsent = 0)

\* ListUsers returned OK after it sent the two users of the store.
C16_Witness ==
  /\ Returned("h1", "ListUsers")
  /\ h["h1"].code = "OK"
  /\ h["h1"].nsent = 2
  /\ Cardinality(DOMAIN users) = 2

\* Worker w is inside a call of op.
Inside(w, op) == h[w].op = op /\ h[w].pc # "idle"

\* The item read last is still being added.
Pending(f) == IF f.pc \in {"add_lock", "add_check", "add_write"} THEN 1 ELSE 0

\* C17: BatchAddUsers builds its response only on the step that reads the
\* end of the input, and that response is the one thing it sends; in it
\* totalReceived is the number of items read, totalReceived = totalAdded +
\* totalFailed, the error list has totalFailed entries, and totalAdded counts
\* the users the call stored: every step of the call that changes the store
\* adds one user and one to the counter, and no other step moves the counter.
C17_BatchSummary ==
  /\ [](Inside("h1", "BatchAddUsers") =>
          /\ h["h1"].val = Nil
          /\ h["h1"].nsent = 0
          /\ h["h1"].received
               = h["h1"].added + h["h1"].failed + Pending(h["h1"])
          /\ Len(h["h1"].errors) = h["h1"].failed)
  /\ [][(Inside("h1", "BatchAddUsers") /\ h'["h1"].pc # "idle") =>
          /\ h'["h1"].added \in {h["h1"].added, h["h1"].added + 1}
          /\ h'["h1"].added = h["h1"].added + 1 <=> users' # users
          /\ users' # users =>
               /\ h["h1"].user.id \notin DOMAIN users
               /\ DOMAIN users' = DOMAIN users \cup {h["h1"].user.id}
               /\ \A i \in DOMAIN users : users'[i] = users[i]
          /\ h'["h1"].received \in {h["h1"].received, h["h1"].received + 1}
          /\ h'["h1"].received = h["h1"].received + 1 <=> h["h1"].pc = "recv"]_vars
  /\ [][(Inside("h1", "BatchAddUsers") /\ h'["h1"].pc = "idle") =>
          /\ h["h1"].pc = "recv"
          /\ users' = users
          /\ h'["h1"].code \in {"OK", "Unavailable", "Canceled"}
          /\ h'["h1"].code # "OK" => h'["h1"].val = Nil
          /\ h'["h1"].code = "OK" =>
               /\ h'["h1"].val.totalReceived = h["h1"].received
               /\ h'["h1"].val.totalAdded = h["h1"].added
               /\ h'["h1"].val.totalFailed = h["h1"].failed
               /\ h'["h1"].val.errors = h["h1"].errors]_vars
  /\ [](Returned("h1", "BatchAddUsers") /\ h["h1"].code = "OK" =>
          /\ h["h1"].val.totalReceived
               = h["h1"].val.totalAdded + h["h1"].val.totalFailed
          /\ Len(h["h1"].val.errors) = h["h1"].val.totalFailed)

\* A batch of two items returned its summary: one added, one failed.
C17_Witness ==
  /\ Returned("h1", "BatchAddUsers")
  /\ h["h1"].code = "OK"
  /\ h["h1"].val.totalReceived = 2
  /\ h["h1"].val.totalAdded = 1
  /\ h["h1"].val.totalFailed = 1
  /\ Len(h["h1"].val.errors) = 1

\* C18: in BatchAddUsers an item that fails (id 0, empty username, or an id
\* the store has) leaves the store as it was and the handler goes on to read
\* the next item; an item with an id above 0, a username and an id the store
\* lacks is stored, however many items failed before it; and the call
\* returns only from its read of the stream, never with an item's error.
C18_BatchIsolation ==
  /\ [][(Inside("h1", "BatchAddUsers") /\ h["h1"].pc = "recv"
           /\ h'["h1"].pc # "idle" /\ h'["h1"] # h["h1"]) =>
          IF h'["h1"].user.id = 0 \/ h'["h1"].user.username = ""
          THEN /\ users' = users
               /\ h'["h1"].pc = "recv"
               /\ h'["h1"].failed = h["h1"].failed + 1
               /\ h'["h1"].added = h["h1"].added
          ELSE /\ h'["h1"].pc = "add_lock"
               /\ h'["h1"].failed = h["h1"].failed]_vars
  /\ [][(Inside("h1", "BatchAddUsers") /\ Leaves("h1", "add_check")) =>
          IF h["h1"].user.id \in DOMAIN users
          THEN /\ users' = users
               /\ h'["h1"].pc = "recv"
               /\ h'["h1"].failed = h["h1"].failed + 1
               /\ h'["h1"].errors[h'["h1"].failed]
                    = ItemError(h["h1"].received, "AlreadyExists")
          ELSE /\ users' = users
               /\ h'["h1"].pc = "add_write"]_vars
  /\ [][(Inside("h1", "BatchAddUsers") /\ Leaves("h1", "add_write")) =>
          /\ h["h1"].user.id \notin DOMAIN users
          /\ DOMAIN users' = DOMAIN users \cup {h["h1"].user.id}
          /\ users'[h["h1"].user.id] = WithDefaults(h["h1"].user, clock)
          /\ \A i \in DOMAIN users : users'[i] = users[i]
          /\ h'["h1"].pc = "recv"
          /\ h'["h1"].added = h["h1"].added + 1
          /\ h'["h1"].failed = h["h1"].failed]_vars
  /\ [][(Inside("h1", "BatchAddUsers") /\ h'["h1"].pc = "idle") =>
          h["h1"].pc = "recv" /\ h'["h1"].code \in {"OK", "Unavailable", "Canceled"}]_vars

\* The first item of a batch failed and the second one was stored.
C18_Witness ==
  /\ Inside("h1", "BatchAddUsers")
  /\ h["h1"].pc = "recv"
  /\ h["h1"].received = 2
  /\ h["h1"].failed = 1
  /\ h["h1"].added = 1
  /\ h["h1"].errors[1][1] = 1
  /\ h["h1"].user.id \in DOMAIN users

BidiOps == {"SyncUsers", "UserActivityStream"}

\* The user id of the inbound item the handler is working on.
ItemId(f) == IF f.op = "SyncUsers" THEN f.user.id ELSE f.req.userId

\* C19: in SyncUsers and UserActivityStream the handler reads an item only
\* when it has sent a response for every item read before, every send is of
\* a response with the user id of the item read last, and the stream ends
\* normally only with as many responses sent as items read (a failing send
\* ends the call with the transport's error).
C19_StreamPairing ==
  /\ [](\A op \in BidiOps :
          Inside("h1", op) =>
            IF h["h1"].pc = "recv"
            THEN h["h1"].nsent = h["h1"].received
            ELSE h["h1"].nsent = h["h1"].received - 1)
  /\ [][\A op \in BidiOps :
          (Inside("h1", op) /\ h'["h1"].pc # "idle") =>
            /\ h'["h1"].received = h["h1"].received + 1
                 <=> (h["h1"].pc = "recv" /\ h'["h1"] # h["h1"])
            /\ h'["h1"].received # h["h1"].received + 1
                 => h'["h1"].received = h["h1"].received
            /\ h'["h1"].nsent = h["h1"].nsent + 1
                 <=> (h["h1"].pc = "send" /\ h'["h1"] # h["h1"])
            /\ h'["h1"].nsent # h["h1"].nsent + 1
                 => h'["h1"].nsent = h["h1"].nsent
            /\ (h["h1"].pc = "send" /\ h'["h1"] # h["h1"]) =>
                 /\ h["h1"].val # Nil
                 /\ h["h1"].val.userId = ItemId(h["h1"])
                 /\ h'["h1"].pc = "recv"]_vars
  /\ [][\A op \in BidiOps :
          (Inside("h1", op) /\ h'["h1"].pc = "idle") =>
            /\ h'["h1"].nsent = h["h1"].nsent
            /\ \/ /\ h["h1"].pc = "recv"
                  /\ h'["h1"].code \in {"OK", "Canceled"}
                  /\ h["h1"].nsent = h["h1"].received
               \/ /\ h["h1"].pc = "send"
                  /\ h'["h1"].code = "Unavailable"]_vars

\* UserActivityStream read two activities, sent two responses and returned.
C19_Witness ==
  /\ Returned("h1", "UserActivityStream")
  /\ h["h1"].code = "OK"
  /\ h["h1"].nsent = 2

\* Worker w is inside a critical section of MemoryStorage: of AddUser,
\* UpdateUser or DeleteUser, or of one of the five reads.
InWrite(w) == h[w].pc \in {"add_check", "add_write", "upd_body", "del_body"}

InRead(w) ==
  h[w].pc \in {"count_body", "get_body", "exists_body", "list_body"}

\* C15: the sections of AddUser, UpdateUser and DeleteUser hold the lock
\* exclusively and those of GetUser, ListUsers, ListUsersByRole, UserExists
\* and Count hold it shared; a writer is never in its section together with
\* another writer or a reader; the map changes only in a step of the writer
\* that holds the lock; and a read returns the stored entities of a state in
\* which no writer is inside.
C15_LockDiscipline ==
  /\ [](\A w \in Workers :
          /\ InWrite(w) <=> mu.writer = w
          /\ InRead(w) <=> w \in mu.readers
          /\ InWrite(w) => \A v \in Workers \ {w} : ~InWrite(v) /\ ~InRead(v))
  /\ [][users' # users =>
          \E w \in Workers :
            /\ mu.writer = w
            /\ h[w].pc \in {"add_write", "upd_body", "del_body"}
            /\ h'[w] # h[w]
            /\ mu'.writer = "none"]_vars
  /\ [][\A w \in Workers :
          /\ InRead(w) /\ h'[w] # h[w] =>
               /\ mu.writer = "none"
               /\ users' = users
               /\ w \notin mu'.readers
          /\ (Leaves(w, "get_body") /\ h[w].op = "GetUser") =>
               IF h[w].id \in DOMAIN users
               THEN h'[w].code = "OK" /\ h'[w].val = users[h[w].id]
               ELSE h'[w].code = "NotFound"
          /\ (Leaves(w, "list_body") /\ h'[w].pc = "stream") =>
               \A k \in DOMAIN h'[w].result :
                 h'[w].result[k] = users[h'[w].result[k].id]]_vars

\* One caller reads in its section while the other waits for the write lock.
C15_Witness ==
  /\ h["h1"].pc = "list_body"
  /\ h["h2"].pc = "upd_lock"
  /\ mu.readers = {"h1"}
  /\ DOMAIN users = {1}

\* strings.Contains(msg, text) on the messages of validateJWT.
Contains(msg, text) ==
  \/ msg = text
  \/ /\ msg = "invalid authorization format, expected 'Bearer <token>'"
     /\ text = "invalid authorization format"

\* The check of validateJWT that the credential fails first, 5 when it
\* passes the four of them.
FirstFailure(cred) ==
  IF ~cred.md THEN 1
  ELSE IF cred.auth = <<>> THEN 2
  ELSE IF cred.auth[1].scheme # "Bearer " THEN 3
  ELSE IF cred.auth[1].rest.raw = "" THEN 4
  ELSE 5

CheckMessages ==
  <<"missing metadata", "missing authorization header",
    "invalid authorization format", "empty token">>

\* C20: validateJWT answers Unauthenticated with the message of the first
\* check the credential fails, in the order metadata, authorization value,
\* "Bearer " prefix, non-empty token; ValidateToken is called exactly for the
\* credentials that pass the four checks, and a token it refuses is
\* Unauthenticated too, with the error's text.
C20_ValidateOrder ==
  \A c \in Calls :
    /\ "ValidateToken" \in {trace[c][k] : k \in DOMAIN trace[c]} =>
         FirstFailure(call[c].cred) = 5
    /\ cpc[c] = Done =>
         LET n == FirstFailure(call[c].cred) IN
         IF n < 5
         THEN /\ vres[c].code = "Unauthenticated"
              /\ vres[c].claims = Nil
              /\ Contains(vres[c].msg, CheckMessages[n])
              /\ \A k \in 1..4 : k # n => ~Contains(vres[c].msg, CheckMessages[k])
              /\ trace[c] = <<"extract">>
         ELSE /\ trace[c] = <<"extract", "ValidateToken">>
              /\ LET r == ValidateToken(Manager, call[c].cred.auth[1].rest,
                                        vtime[c])
                 IN IF r.err # "nil"
                    THEN /\ vres[c].code = "Unauthenticated"
                         /\ vres[c].claims = Nil
                         /\ vres[c].msg = r.err
                    ELSE vres[c].code = "OK" /\ vres[c].claims = r.claims

\* A header with neither the prefix nor a token was refused for its format,
\* and a token signed with another key was refused by ValidateToken.
C20_Witness ==
  /\ cpc["c1"] = Done /\ cpc["c2"] = Done
  /\ call["c1"].cred.auth = <<[scheme |-> "", rest |-> TokEmpty]>>
  /\ Contains(vres["c1"].msg, "invalid authorization format")
  /\ call["c2"].cred.auth = <<Bearer(TokWrongKey)>>
  /\ vres["c2"].code = "Unauthenticated"
  /\ trace["c2"] = <<"extract", "ValidateToken">>

\* C21: ValidateToken of a token GenerateToken made with the same key,
\* called before the token's expiry, succeeds with claims that are the
\* token's payload and whose userID, username, email and roles are the ones
\* the token was generated with.
C21_TokenRoundTrip ==
  (tk.identity # Nil /\ tk.validated # Nil
     /\ tk.validated.at < tk.token.claims.exp) =>
    /\ tk.validated.res.err = "nil"
    /\ tk.validated.res.claims = tk.token.claims
    /\ tk.validated.res.claims.userID = tk.identity.userID
    /\ tk.validated.res.claims.username = tk.identity.username
    /\ tk.validated.res.claims.email = tk.identity.email
    /\ tk.validated.res.claims.roles = tk.identity.roles

\* The token of an identity with two roles was validated before its expiry.
C21_Witness ==
  /\ tk.identity # Nil
  /\ tk.identity.roles = <<"admin", "user">>
  /\ tk.validated # Nil
  /\ tk.validated.at < tk.token.claims.exp
  /\ tk.validated.res.err = "nil"

\* The signature of the token verifies under the manager's key: it is the
\* HMAC, with the algorithm of the header, of the header and the payload.
Verifies(tok) ==
  /\ tok.raw = "jwt"
  /\ tok.alg \in HMACAlgs
  /\ tok.sig = Sign(Manager.secretKey, tok.alg, tok.claims)

\* C22: ValidateToken returns no claims for a token whose signature does
\* not verify under the manager's key (ErrInvalidToken, expired or not) nor
\* for an expired one whose signature verifies (ErrExpiredToken).
C22_NoClaimsForBadToken ==
  tk.validated # Nil =>
    /\ ~Verifies(tk.token) =>
         /\ tk.validated.res.claims = Nil
         /\ tk.validated.res.err = "ErrInvalidToken"
    /\ (Verifies(tk.token) /\ tk.validated.at >= tk.token.claims.exp) =>
         /\ tk.validated.res.claims = Nil
         /\ tk.validated.res.err = "ErrExpiredToken"

\* A token the manager issued was validated after its expiry.
C22_Witness ==
  /\ tk.identity # Nil
  /\ tk.validated # Nil
  /\ tk.validated.at >= tk.token.claims.exp
  /\ tk.validated.res.err = "ErrExpiredToken"

\* C23: RefreshToken of a token whose signature verifies, expired or not,
\* returns a token that ValidateToken accepts at that time, with the
\* identity of the original and an expiry of now + tokenDuration; for a
\* token whose signature does not verify it returns an error and no token.
C23_Refresh ==
  tk.refreshed # Nil =>
    IF Verifies(tk.token)
    THEN /\ tk.refreshed.res.err = "nil"
         /\ LET new == tk.refreshed.res.token
                v == ValidateToken(Manager, new, tk.refreshed.at)
            IN /\ v.err = "nil"
               /\ v.claims.userID = tk.token.claims.userID
               /\ v.claims.username = tk.token.claims.username
               /\ v.claims.email = tk.token.claims.email
               /\ v.claims.roles = tk.token.claims.roles
               /\ new.claims.exp = tk.refreshed.at + Manager.tokenDuration
    ELSE /\ tk.refreshed.res.err # "nil"
         /\ tk.refreshed.res.token = Nil

\* An expired token was refused by ValidateToken and renewed by RefreshToken.
C23_Witness ==
  /\ tk.identity # Nil
  /\ tk.validated # Nil /\ tk.validated.res.err = "ErrExpiredToken"
  /\ tk.refreshed # Nil /\ tk.refreshed.res.err = "nil"
  /\ tk.refreshed.at >= tk.token.claims.exp

\* C24: ValidateToken and RefreshToken refuse every token whose header
\* names an algorithm other than HS256, the one GenerateToken signs with.
C24_OnlyHS256 ==
  (tk.token # Nil /\ tk.token.raw = "jwt" /\ tk.token.alg # "HS256") =>
    /\ tk.validated # Nil => tk.validated.res.err # "nil"
    /\ tk.refreshed # Nil => tk.refreshed.res.err # "nil"

\* The roles named in a list.
RoleSet(roles) == {roles[k] : k \in DOMAIN roles}

\* C25: RequireRole(roles...) returns Unauthenticated for a context without
\* claims or with a value of another type under the key, PermissionDenied
\* for claims holding none of the required roles (an empty required list
\* included), and nil exactly for claims holding one of them.
C25_RequireRole ==
  \A c \in Calls :
    rq[c].code # "none" =>
      LET v == rq[c].ctx.claims IN
      IF v = Nil \/ "roles" \notin DOMAIN v
      THEN rq[c].code = "Unauthenticated"
      ELSE IF RoleSet(v.roles) \cap RoleSet(rq[c].roles) = {}
      THEN rq[c].code = "PermissionDenied"
      ELSE rq[c].code = "OK"

\* An admin was refused by a check built with no roles, and a context with
\* a value of another type was answered Unauthenticated.
C25_Witness ==
  /\ rq["c1"].code = "PermissionDenied"
  /\ rq["c1"].roles = <<>>
  /\ rq["c1"].ctx.claims = ClaimsWith(<<"admin", "user">>)
  /\ rq["c2"].code = "Unauthenticated"
  /\ rq["c2"].ctx.claims = [other |-> "admin"]

\* C26: PostgresStorage.AddUser keeps the contract of MemoryStorage.AddUser:
\* given an id the table has it fails with AlreadyExists and leaves the row
\* as it is, so that the two backends, given the same operations, return
\* errors together and hold the same ids.
C26_SameAddContract ==
  /\ [][\A id \in DOMAIN rows :
          (last' # last /\ last'.op = "AddUser" /\ last'.id = id) =>
            /\ last'.pg = "AlreadyExists"
            /\ rows' = rows]_vars
  /\ [](last # Nil => ((last.mem = "nil") <=> (last.pg = "nil")))
  /\ [](DOMAIN users = DOMAIN rows)

\* C27: no two stored users have the same username.
C27_UniqueUsername ==
  \A i, j \in DOMAIN users :
    i # j => users[i].username # users[j].username

\* C28: the createDate of a stored user never changes while it is stored.
C28_CreateDateOnce ==
  [][\A id \in DOMAIN users \cap DOMAIN users' :
       users'[id].createDate = users[id].createDate]_vars

\* The storage call of worker w's unary handler op, at its section pc, fails
\* for want (or presence) of the id.
StorageFails(w, op, pc, id) ==
  /\ h[w].op = op
  /\ Leaves(w, pc)
  /\ IF pc = "add_check" THEN id \in DOMAIN users ELSE id \notin DOMAIN users

\* C29: what AddUser, GetUser, UpdateUser and DeleteUser return when their
\* storage call fails is the storage's own status: AlreadyExists from
\* MemoryStorage.AddUser, NotFound from GetUser, UpdateUser and DeleteUser.
C29_ErrorPassThrough ==
  /\ [][\A w \in Workers :
          /\ StorageFails(w, "AddUser", "add_check", h[w].user.id) =>
               h'[w].pc = "idle" /\ h'[w].code = "AlreadyExists"
          /\ StorageFails(w, "GetUser", "get_body", h[w].id) =>
               h'[w].pc = "idle" /\ h'[w].code = "NotFound"
          /\ StorageFails(w, "UpdateUser", "get_body", h[w].id) =>
               h'[w].pc = "idle" /\ h'[w].code = "NotFound"
          /\ StorageFails(w, "UpdateUser", "upd_body", h[w].id) =>
               h'[w].pc = "idle" /\ h'[w].code = "NotFound"
          /\ StorageFails(w, "DeleteUser", "del_body", h[w].id) =>
               h'[w].pc = "idle" /\ h'[w].code = "NotFound"]_vars
  /\ [](\A w \in Workers :
          \A op \in {"AddUser", "GetUser", "UpdateUser", "DeleteUser"} :
            Returned(w, op) =>
              /\ h[w].code \in {"OK", "InvalidArgument", "AlreadyExists", "NotFound"}
              /\ h[w].code = "AlreadyExists" => op = "AddUser"
              /\ h[w].code = "NotFound" => op # "AddUser")

\* AddUser came back with the store's AlreadyExists while UpdateUser came
\* back with its NotFound.
C29_Witness ==
  /\ Returned("h1", "AddUser") /\ h["h1"].code = "AlreadyExists"
  /\ Returned("h2", "UpdateUser") /\ h["h2"].code = "NotFound"

\* The id the storage call of worker w is about.
StorageKey(w) ==
  IF h[w].pc \in {"add_check", "add_write"} THEN h[w].user.id
  ELSE IF h[w].pc = "upd_body" /\ h[w].op # "UpdateUser" THEN h[w].user.id
  ELSE h[w].id

\* C30: UpdateUser and DeleteUser of an id the store lacks fail with
\* NotFound and change nothing; an id enters the store only by an add;
\* DeleteUser of a stored id removes that id and nothing else; and GetUser
\* of an id the store lacks is NotFound.
C30_MissingAndDelete ==
  [][\A w \in Workers :
       /\ Leaves(w, "del_body") =>
            IF h[w].id \in DOMAIN users
            THEN /\ DOMAIN users' = DOMAIN users \ {h[w].id}
                 /\ \A i \in DOMAIN users' : users'[i] = users[i]
                 /\ h'[w].code = "OK"
            ELSE users' = users /\ h'[w].code = "NotFound"
       /\ (Leaves(w, "upd_body") /\ StorageKey(w) \notin DOMAIN users) =>
            /\ users' = users
            /\ h[w].op = "UpdateUser" => h'[w].code = "NotFound"
       /\ (Leaves(w, "get_body") /\ h[w].id \notin DOMAIN users) =>
            /\ users' = users
            /\ h[w].op \in {"GetUser", "UpdateUser"} => h'[w].code = "NotFound"
       /\ (h'[w] # h[w] /\ DOMAIN users' \ DOMAIN users # {}) =>
            /\ h[w].pc = "add_write"
            /\ DOMAIN users' = DOMAIN users \cup {h[w].user.id}]_vars

\* One caller deleted user 1 and the other, asking for it, got NotFound.
C30_Witness ==
  /\ Returned("h1", "DeleteUser") /\ h["h1"].code = "OK" /\ h["h1"].id = 1
  /\ Returned("h2", "GetUser") /\ h["h2"].code = "NotFound" /\ h["h2"].id = 1
  /\ 1 \notin DOMAIN users

\* ---------------------------------------------------------------- C31
\* C31: in UserActivityStream only the storage update of a LOGIN event for
\* a stored user changes the store, and it changes that user's lastLogin to
\* the event's timestamp and nothing else; an event of another type or for a
\* user that is not stored goes from the existence check to its response
\* (acknowledged = whether the user is stored) and the store stays as it was.
C31_ActivityFrame ==
  /\ [][\A w \in Workers :
          (Inside(w, "UserActivityStream") /\ h'[w] # h[w]) =>
            /\ users' # users =>
                 /\ h[w].pc = "upd_body"
                 /\ h[w].req.activityType = "LOGIN"
                 /\ h[w].req.userId \in DOMAIN users
                 /\ users' = [users EXCEPT ![h[w].req.userId].lastLogin =
                                             h[w].req.timestamp]
            /\ (Leaves(w, "upd_body") /\ h[w].req.userId \in DOMAIN users) =>
                 users'[h[w].req.userId] =
                   [users[h[w].req.userId] EXCEPT !.lastLogin =
                                                    h[w].req.timestamp]
            /\ Leaves(w, "exists_body") =>
                 /\ h'[w].val.acknowledged = (h[w].req.userId \in DOMAIN users)
                 /\ (h[w].req.activityType # "LOGIN"
                       \/ h[w].req.userId \notin DOMAIN users)
                      => h'[w].pc = "send"
                 /\ (h[w].req.activityType = "LOGIN"
                       /\ h[w].req.userId \in DOMAIN users)
                      => h'[w].pc = "get_lock"]_vars

\* A LOGIN event for a stored user has been applied and awaits its response.
C31_Witness ==
  \E w \in Workers :
    /\ Inside(w, "UserActivityStream")
    /\ h[w].pc = "send"
    /\ h[w].req.activityType = "LOGIN"
    /\ h[w].val.acknowledged
    /\ h[w].req.userId \in DOMAIN users
    /\ users[h[w].req.userId].lastLogin = h[w].req.timestamp

\* ---------------------------------------------------------------- C32
\* C32: when an UpdateUser that set the status of user 1 has returned OK and
\* a concurrent UserActivityStream has applied a LOGIN event for the same
\* user (its acknowledged response is about to be sent), the stored user has
\* both the new status and the event's timestamp as lastLogin.
C32_BothModifications ==
  \A w \in Workers : \A v \in Workers \ {w} :
    ( /\ Returned(w, "UpdateUser")
      /\ h[w].code = "OK"
      /\ h[w].mask = <<"status">>
      /\ h[v].op = "UserActivityStream"
      /\ h[v].pc = "send"
      /\ h[v].req = RaceLogin
      /\ h[v].val.acknowledged )
    => /\ 1 \in DOMAIN users
       /\ users[1].status = h[w].val.status
       /\ users[1].lastLogin = RaceLogin.timestamp

\* ---------------------------------------------------------------- C33
\* C33: PostgresStorage.UpdateUser returns success only from an UPDATE that
\* found the row of its id, and a call whose row is missing when the
\* statement is applied reports an error.
C33_UpdateAtomic ==
  [][\A w \in Workers :
       (h[w].op = "PgUpdateUser" /\ h[w].pc # "idle" /\ h'[w].pc = "idle") =>
         (h'[w].code = "nil" => PostgresUserExists(rows, h[w].id))]_vars

\* ---------------------------------------------------------------- C34
\* C34: every stored user has an id greater than 0 and is stored under that
\* id; AddUser, GetUser, UpdateUser and DeleteUser answer id 0 with
\* InvalidArgument, BatchAddUsers counts an item with id 0 as failed and
\* SyncUsers answers it FAILED, each without a storage call; and a step
\* that keeps a key of the store keeps the id of the user under it.
C34_PositiveIds ==
  /\ [](\A i \in DOMAIN users : i > 0 /\ users[i].id = i)
  /\ [](\A w \in Workers :
          /\ (h[w].op \in {"AddUser", "UpdateUser"} /\ h[w].user # Nil
                /\ h[w].user.id = 0)
               => (h[w].pc \in {"idle", "count_lock", "count_body"}
                     /\ (h[w].pc = "idle" => h[w].code = "InvalidArgument"))
          /\ (h[w].op \in {"GetUser", "DeleteUser"} /\ h[w].id = 0)
               => (h[w].pc = "idle" /\ h[w].code = "InvalidArgument")
          /\ (h[w].op = "BatchAddUsers" /\ h[w].pc # "idle" /\ h[w].user # Nil
                /\ h[w].user.id = 0)
               => (h[w].pc = "recv" /\ h[w].failed >= 1
                     /\ Len(h[w].errors) = h[w].failed)
          /\ (h[w].op = "SyncUsers" /\ h[w].pc # "idle" /\ h[w].user # Nil
                /\ h[w].user.id = 0)
               => (h[w].pc = "recv"
                     \/ (h[w].pc = "send" /\ h[w].val.status = "FAILED")))
  /\ [][\A w \in Workers :
          (h[w].pc # "idle" /\ h[w].op # "UserActivityStream"
             /\ (IF h[w].op \in {"GetUser", "DeleteUser"} THEN h[w].id = 0
                 ELSE h[w].user # Nil /\ h[w].user.id = 0))
            => users' = users]_vars
  /\ [][\A i \in DOMAIN users \cap DOMAIN users' : users'[i].id = users[i].id]_vars

\* With a user stored, an AddUser with id 0 has been rejected.
C34_Witness ==
  /\ users # <<>>
  /\ \E w \in Workers :
       /\ Returned(w, "AddUser")
       /\ h[w].user.id = 0
       /\ h[w].code = "InvalidArgument"

\* ---------------------------------------------------------------- C35
\* The predicates a filter supplies, as the users they let through.
Satisfies(user, filter) ==
  \/ filter = Nil
  \/ /\ filter.createdSince # Nil =>
          AsTime(user.createDate) >= filter.createdSince.unix
     /\ filter.olderThan # Nil =>
          AsTime(user.createDate) < filter.olderThan.unix
     /\ filter.status # Nil => user.status = filter.status.is

Recorded == {c \in Calls : \E k \in 1..Len(trace[c]) : trace[c][k] = "metrics_rec"}

RECURSIVE SumCounts(_, _)
SumCounts(counts, S) ==
  IF S = {} THEN 0
  ELSE LET m == CHOOSE x \in S : TRUE IN counts[m] + SumCounts(counts, S \ {m})

\* C36: with calls interleaved through the metrics interceptor and GetStats
\* readers in between, totalRequests is the sum of the per-method counts,
\* every method has as many recorded durations as its count, totalErrors is
\* at most totalRequests, and while the collector has not been reset
\* totalRequests is the number of completed calls; each completed call adds
\* exactly one request (and one error iff it failed), GetStats reports the
\* totals of the moment and changes nothing, and Reset sets everything to 0.
C36_MetricsExact ==
  /\ [](/\ metrics.totalRequests = SumCounts(metrics.methodCounts, Methods)
        /\ \A m \in Methods :
             Len(metrics.requestDurations[m]) = metrics.methodCounts[m]
        /\ metrics.totalErrors <= metrics.totalRequests
        /\ metrics.totalRequests <= Cardinality(Recorded)
        /\ (last = Nil \/ ~last.reset) =>
             metrics.totalRequests = Cardinality(Recorded))
  /\ [][\A c \in Calls :
          (StageOf(c) = "metrics" /\ cpc[c].ph = "up" /\ cpc'[c] # cpc[c]) =>
            /\ metrics'.totalRequests = metrics.totalRequests + 1
            /\ metrics'.methodCounts[call[c].method] =
                 metrics.methodCounts[call[c].method] + 1
            /\ metrics'.totalErrors =
                 metrics.totalErrors + (IF cerr[c] # "OK" THEN 1 ELSE 0)]_vars
  /\ [][(last' # last /\ last'.op = "GetStats") =>
          /\ metrics' = metrics
          /\ last'.stats.total_requests = metrics.totalRequests
          /\ last'.stats.total_errors = metrics.totalErrors
          /\ \A m \in DOMAIN last'.stats.methods :
               last'.stats.methods[m].count = metrics.methodCounts[m]]_vars
  /\ [][(last' # last /\ last'.op = "Reset") =>
          /\ metrics'.totalRequests = 0
          /\ metrics'.totalErrors = 0
          /\ \A m \in Methods :
               metrics'.methodCounts[m] = 0 /\ metrics'.requestDurations[m] = <<>>]_vars

\* Two calls have completed, one of them with an error, and a reader has
\* read both from GetStats.
C36_Witness ==
  /\ Cardinality(Recorded) = 2
  /\ metrics.totalRequests = 2
  /\ metrics.totalErrors = 1
  /\ last # Nil
  /\ last.op = "GetStats"
  /\ last.stats.total_requests = 2

\* ---------------------------------------------------------------- C37
\* The calls inside the metrics stage: below it, or back in it with the
\* inner result.
MetricsAt == CHOOSE i \in 1..Len(Chain) : Chain[i] = "metrics"

InMetrics(c) ==
  \/ cpc[c].at > MetricsAt
  \/ cpc[c].at = MetricsAt /\ cpc[c].ph = "up"

\* C37: with the OTel interceptors in the chain, in every state the
\* active-requests counter is the number of calls inside the metrics stage
\* (unary or streaming, whatever they return), so it is never negative and
\* is 0 when no call is in flight; entering the stage adds one to it and
\* leaving the stage takes one from it.
C37_ActiveRequests ==
  /\ [](otel.enabled =>
          /\ otel.active = Cardinality({c \in Calls : InMetrics(c)})
          /\ otel.active >= 0
          /\ ((\A c \in Calls : cpc[c] \in {Idle, Done}) => otel.active = 0))
  /\ [][otel.enabled =>
          \A c \in Calls :
            /\ (~InMetrics(c) /\ InMetrics(c)') => otel'.active = otel.active + 1
            /\ (InMetrics(c) /\ ~InMetrics(c)') => otel'.active = otel.active - 1]_vars

\* One call has left the metrics stage with an error while another is still
\* inside.
C37_Witness ==
  /\ otel.enabled
  /\ otel.active = 1
  /\ otel.errors = 1
  /\ \E c \in Calls : cpc[c] = Done /\ cerr[c] # "OK"

\* ---------------------------------------------------------------- C38
\* C38: with OpenTelemetry and auth both on, the span of a call whose token
\* validateJWT accepted has the attributes user.id, user.email and
\* user.roles when it is ended.
C38_ClaimsOnSpan ==
  \A c \in Calls :
    ( /\ otel.enabled /\ enableAuth
      /\ otel.span[c] # Nil
      /\ otel.span[c].ended
      /\ vres[c] # Nil
      /\ vres[c].code = "OK" )
    => {"user.id", "user.email", "user.roles"} \subseteq otel.span[c].attrs

\* ---------------------------------------------------------------- C39
\* How often an event is in the trace of a call.
Times(c, event) == Cardinality({k \in 1..Len(trace[c]) : trace[c][k] = event})

\* The context a stage argument carries.
ArgContext(c, arg) == IF call[c].kind = "stream" THEN StreamContext(arg) ELSE arg

\* C39: the logging and the metrics interceptor, plain or OTel, unary or
\* stream, each call the next stage once, with a context that carries the
\* credentials and claims of the one they were given; on the way back they
\* pass the inner status on as it is; they leave the store alone; and no
\* call runs an interceptor or its handler twice.
C39_Transparent ==
  /\ [][\A c \in Calls :
          (StageOf(c) \in {"logging", "metrics"} /\ cpc'[c] # cpc[c]) =>
            /\ cerr'[c] = cerr[c]
            /\ users' = users
            /\ cpc[c].ph = "down" =>
                 /\ cpc'[c] = [at |-> cpc[c].at + 1, ph |-> "down"]
                 /\ ArgContext(c, harg'[c]).cred = ArgContext(c, harg[c]).cred
                 /\ ArgContext(c, harg'[c]).claims = ArgContext(c, harg[c]).claims
            /\ cpc[c].ph = "up" =>
                 /\ cpc'[c].ph = "up"
                 /\ cpc'[c].at < cpc[c].at
                 /\ harg'[c] = harg[c]]_vars
  /\ [](\A c \in Calls :
          /\ Times(c, "log_start") <= 1 /\ Times(c, "log_end") <= 1
          /\ Times(c, "metrics_start") <= 1 /\ Times(c, "metrics_rec") <= 1
          /\ Times(c, "handler") <= 1
          /\ cpc[c] = Done =>
               /\ Times(c, "log_start") = 1 /\ Times(c, "log_end") = 1
               /\ Times(c, "metrics_start") = 1 /\ Times(c, "metrics_rec") = 1
               /\ (cerr[c] = "OK" => Times(c, "handler") = 1))

\* A streaming call through the OTel interceptors has returned the error of
\* its handler.
C39_Witness ==
  \E c \in Calls :
    /\ otel.enabled
    /\ cpc[c] = Done
    /\ call[c].kind = "stream"
    /\ Times(c, "handler") = 1
    /\ cerr[c] = "NotFound"
    /\ otel.span[c].ended

\* ---------------------------------------------------------------- C40
\* C40: UserActivityStream and SyncUsers return only from stream.Recv or
\* stream.Send: OK from a Recv that reports the end of the input, however
\* many responses were sent before, and then every received item has been
\* answered; the error of a Recv or of a Send that fails; and a call whose
\* client ends or breaks its stream is not left running.
C40_StreamTermination ==
  /\ [][\A w \in Workers :
          (h[w].op \in BidiOps /\ h[w].pc # "idle" /\ h'[w].pc = "idle") =>
            /\ h[w].pc \in {"recv", "send"}
            /\ h[w].pc = "recv" =>
                 /\ h'[w].code \in {"OK", "Canceled"}
                 /\ h'[w].nsent = h[w].received
            /\ h[w].pc = "send" => h'[w].code = "Unavailable"
            /\ h'[w].code = "OK" =>
                 (h[w].pc = "recv" /\ h'[w].nsent = h[w].nsent)]_vars
  /\ [](\A w \in Workers :
          (h[w].op \in BidiOps /\ h[w].pc = "recv") => h[w].nsent = h[w].received)
  /\ \A op \in BidiOps : Inside("h1", op) ~> Returned("h1", op)

\* A stream of MaxItems items was answered item by item and then ended.
C40_Witness ==
  \E w \in Workers :
    /\ h[w].op \in BidiOps
    /\ Returned(w, h[w].op)
    /\ h[w].code = "OK"
    /\ h[w].nsent = MaxItems

====
